---- MODULE Spec2Model ----
(***************************************************************************)
(* A model of the Game Boy emulator core in src/src (orchestrator, video   *)
(* mode machine, audio unit) and of its SDL host in src/platforms/sdl.     *)
(*                                                                         *)
(* Audio samples are C++ floats in the source.  Here a sample is an        *)
(* integer number of 1/1680ths (SAMPLE_ONE stands for 1.0f): every value   *)
(* the mixer can form from volumes 0..15, wave nibbles 0..15, output       *)
(* levels, master volumes 0..7 and the division by four is a whole number  *)
(* of these units, so the arithmetic below is exact.                       *)
(***************************************************************************)
EXTENDS Integers, Sequences, FiniteSets, TLC

VARIABLES
    pc,                 \* position of the thread executing Gameboy::run
    cycles,             \* Gameboy::tick: the cycles the last cpu.tick() returned
    elapsed_cycles,     \* Gameboy::elapsed_cycles (uint)
    cycles_this_frame,  \* Gameboy::run: local of the outer loop
    cycles_before,      \* Gameboy::run: local of the inner loop
    frames,             \* number of outer-loop iterations of Gameboy::run started
    cut_short,          \* the current outer iteration saw should_close() = true
    fed,                \* per component, the T-states it has been advanced by
    frame_fed,          \* the same, counted from the start of the outer iteration
    closed,             \* should_close_callback() has returned true
    video,              \* the Video object
    interrupt_flag,     \* cpu.interrupt_flag (IF, 0xFF0F)
    vblank,             \* invocations of the vblank callback
    audio,              \* the Audio object with its four channels
    mixed,              \* number of Audio::mix_samples() calls so far
    on_audio,           \* invocations of the audio callback
    host,               \* the SDL host: its threads, running flag and mutexes
    boot,               \* construction: the Options given, the log level in force
    screen,             \* one row of the frame buffer and the registers, VRAM and OAM it is drawn from
    g_buffers           \* the SDL host's g_left_buffer and g_right_buffer: their lengths

vars == << pc, cycles, elapsed_cycles, cycles_this_frame, cycles_before, frames,
           cut_short,
           fed, frame_fed, closed, video, interrupt_flag, vblank, audio,
           mixed, on_audio, host, boot, screen, g_buffers >>

(***************************************************************************)
(* Bounds of the model.                                                    *)
(***************************************************************************)
MaxFrames == 1        \* Spec: outer-loop iterations of Gameboy::run explored
MaxPollFrames == 3    \* SpecPoll: outer-loop iterations explored
MaxPollCycles == 48   \* SpecPoll: no cpu.tick() once this many T-states elapsed
MaxVblanks == 2       \* SpecPpu: vblank callbacks explored
MaxFlushes == 2       \* SpecApu: audio buffer flushes explored
MaxMixed == 1         \* SpecMix: mix_samples() calls explored
MaxEvents == 2        \* SpecHost: events one drain of the SDL queue returns
MaxToneCycles == 100  \* SpecTone: T-states after which Audio::tick is fed no more
MaxStatFrames == 1    \* SpecStat: frames drawn
MaxChanCycles == 12   \* SpecChan: T-states after which Audio::tick is fed no more
MaxSeqCycles == 16384 \* SpecSeq: T-states after which Audio::tick is fed no more
WrapSteps == 12       \* SpecWrap: 4-cycle steps left before elapsed_cycles wraps
DriftFrames == 4388   \* SpecDrift: outer-loop iterations of Gameboy::run already completed
MaxLfsrCycles == 136  \* SpecLfsr: T-states fed to Audio::tick

(***************************************************************************)
(* util/bitwise.h and register.h (8-bit registers).                        *)
(***************************************************************************)
Pow2(n) == 2 ^ n

check_bit(v, n) == (v \div Pow2(n)) % 2 = 1

set_bit_to(v, n, b) ==
    IF b THEN (IF check_bit(v, n) THEN v ELSE v + Pow2(n))
         ELSE (IF check_bit(v, n) THEN v - Pow2(n) ELSE v)

U8(x) == x % 256

\* A 32-bit unsigned value (uint) whose wrap-around matters is kept as two
\* 16-bit halves, value = hi * 65536 + lo.
U32Zero == [ hi |-> 0, lo |-> 0 ]

\* x + n modulo 2^32, for 0 <= n < 65536.
u32_add(x, n) ==
    [ hi |-> (x.hi + ((x.lo + n) \div 65536)) % 65536, lo |-> (x.lo + n) % 65536 ]

\* a - b modulo 2^32, as a number.
u32_sub(a, b) ==
    LET borrow == IF a.lo < b.lo THEN 1 ELSE 0
    IN  ((a.hi - b.hi - borrow) % 65536) * 65536 + ((a.lo - b.lo) % 65536)

(***************************************************************************)
(* video.h: timing constants.                                              *)
(***************************************************************************)
CLOCKS_PER_HBLANK == 204
CLOCKS_PER_SCANLINE_OAM == 80
CLOCKS_PER_SCANLINE_VRAM == 172
CLOCKS_PER_SCANLINE ==
    CLOCKS_PER_SCANLINE_OAM + CLOCKS_PER_SCANLINE_VRAM + CLOCKS_PER_HBLANK
CLOCKS_PER_VBLANK == 4560
SCANLINES_PER_FRAME == 144
CLOCKS_PER_FRAME == (CLOCKS_PER_SCANLINE * SCANLINES_PER_FRAME) + CLOCKS_PER_VBLANK

\* The T-state costs cpu.tick() can return (spec section 4.3).
CpuCycles == {4, 8, 12, 16, 20, 24}

\* Values LCDC (Video::control_byte) is drawn from: LCD off, the usual 0x91
\* (LCD and background on), and 0xB3 (window and sprites on as well).
LcdcValues == {0, 145, 179}

(***************************************************************************)
(* Video.  The frame buffer is kept as the list of drawing operations      *)
(* applied to it since the last buffer.reset().                            *)
(***************************************************************************)
display_enabled(v) == check_bit(v.control_byte, 7)
window_enabled(v) == check_bit(v.control_byte, 5)
sprites_enabled(v) == check_bit(v.control_byte, 1)
bg_enabled(v) == check_bit(v.control_byte, 0)

\* Video::write_scanline(current_line): the buffer afterwards.
write_scanline(v, current_line) ==
    IF ~display_enabled(v) THEN v.buffer
    ELSE LET b1 == IF bg_enabled(v) /\ ~v.debug_disable_background
                   THEN Append(v.buffer, << "bg", current_line >>)
                   ELSE v.buffer
         IN  IF window_enabled(v) /\ ~v.debug_disable_window
             THEN Append(b1, << "window", current_line >>)
             ELSE b1

\* Video::write_sprites(): the buffer afterwards.
write_sprites(v) ==
    IF ~sprites_enabled(v) \/ v.debug_disable_sprites THEN v.buffer
    ELSE Append(v.buffer, << "sprites" >>)

\* lcd_status with bits 1..0 set to the given pair.
stat_mode(stat, bit1, bit0) == set_bit_to(set_bit_to(stat, 1, bit1), 0, bit0)

\* case VideoMode::ACCESS_OAM of Video::tick, cycle_counter already advanced.
tick_access_oam(v, ifl) ==
    IF v.cycle_counter >= CLOCKS_PER_SCANLINE_OAM
    THEN [ v |-> [v EXCEPT !.cycle_counter = v.cycle_counter % CLOCKS_PER_SCANLINE_OAM,
                           !.lcd_status = stat_mode(v.lcd_status, TRUE, TRUE),
                           !.current_mode = "ACCESS_VRAM"],
           ifl |-> ifl, drawn |-> FALSE, frame |-> << >> ]
    ELSE [ v |-> v, ifl |-> ifl, drawn |-> FALSE, frame |-> << >> ]

\* case VideoMode::ACCESS_VRAM.
tick_access_vram(v, ifl) ==
    IF v.cycle_counter >= CLOCKS_PER_SCANLINE_VRAM
    THEN LET hblank_interrupt == check_bit(v.lcd_status, 3)
             ifl1 == IF hblank_interrupt THEN set_bit_to(ifl, 1, TRUE) ELSE ifl
             ly_coincidence_interrupt == check_bit(v.lcd_status, 6)
             ly_coincidence == v.ly_compare = v.line
             ifl2 == IF ly_coincidence_interrupt /\ ly_coincidence
                     THEN set_bit_to(ifl1, 1, TRUE) ELSE ifl1
             st == set_bit_to(v.lcd_status, 2, ly_coincidence)
         IN  [ v |-> [v EXCEPT !.cycle_counter = v.cycle_counter % CLOCKS_PER_SCANLINE_VRAM,
                               !.current_mode = "HBLANK",
                               !.lcd_status = stat_mode(st, FALSE, FALSE)],
               ifl |-> ifl2, drawn |-> FALSE, frame |-> << >> ]
    ELSE [ v |-> v, ifl |-> ifl, drawn |-> FALSE, frame |-> << >> ]

\* Variant of tick_hblank that raises IF bit 0 at the end of every line.
tick_hblank_flag_every_line(v, ifl) ==
    IF v.cycle_counter >= CLOCKS_PER_HBLANK
    THEN LET buf == write_scanline(v, v.line)
             ln == U8(v.line + 1)
             cc == v.cycle_counter % CLOCKS_PER_HBLANK
         IN  IF ln = 144
             THEN [ v |-> [v EXCEPT !.buffer = buf, !.line = ln, !.cycle_counter = cc,
                                   !.current_mode = "VBLANK",
                                   !.lcd_status = stat_mode(v.lcd_status, FALSE, TRUE)],
                    ifl |-> set_bit_to(ifl, 0, TRUE), drawn |-> FALSE, frame |-> << >> ]
             ELSE [ v |-> [v EXCEPT !.buffer = buf, !.line = ln, !.cycle_counter = cc,
                                   !.lcd_status = stat_mode(v.lcd_status, TRUE, FALSE),
                                   !.current_mode = "ACCESS_OAM"],
                    ifl |-> set_bit_to(ifl, 0, TRUE), drawn |-> FALSE, frame |-> << >> ]
    ELSE [ v |-> v, ifl |-> ifl, drawn |-> FALSE, frame |-> << >> ]

\* Variant of tick_hblank that renders the scanline after incrementing LY.
tick_hblank_render_next_line(v, ifl) ==
    IF v.cycle_counter >= CLOCKS_PER_HBLANK
    THEN LET ln == U8(v.line + 1)
             buf == write_scanline(v, ln)
             cc == v.cycle_counter % CLOCKS_PER_HBLANK
         IN  IF ln = 144
             THEN [ v |-> [v EXCEPT !.buffer = buf, !.line = ln, !.cycle_counter = cc,
                                   !.current_mode = "VBLANK",
                                   !.lcd_status = stat_mode(v.lcd_status, FALSE, TRUE)],
                    ifl |-> set_bit_to(ifl, 0, TRUE), drawn |-> FALSE, frame |-> << >> ]
             ELSE [ v |-> [v EXCEPT !.buffer = buf, !.line = ln, !.cycle_counter = cc,
                                   !.lcd_status = stat_mode(v.lcd_status, TRUE, FALSE),
                                   !.current_mode = "ACCESS_OAM"],
                    ifl |-> ifl, drawn |-> FALSE, frame |-> << >> ]
    ELSE [ v |-> v, ifl |-> ifl, drawn |-> FALSE, frame |-> << >> ]

\* case VideoMode::HBLANK.
tick_hblank(v, ifl) ==
    IF v.cycle_counter >= CLOCKS_PER_HBLANK
    THEN LET buf == write_scanline(v, v.line)
             ln == U8(v.line + 1)
             cc == v.cycle_counter % CLOCKS_PER_HBLANK
         IN  IF ln = 144
             THEN [ v |-> [v EXCEPT !.buffer = buf, !.line = ln, !.cycle_counter = cc,
                                   !.current_mode = "VBLANK",
                                   !.lcd_status = stat_mode(v.lcd_status, FALSE, TRUE)],
                    ifl |-> set_bit_to(ifl, 0, TRUE), drawn |-> FALSE, frame |-> << >> ]
             ELSE [ v |-> [v EXCEPT !.buffer = buf, !.line = ln, !.cycle_counter = cc,
                                   !.lcd_status = stat_mode(v.lcd_status, TRUE, FALSE),
                                   !.current_mode = "ACCESS_OAM"],
                    ifl |-> ifl, drawn |-> FALSE, frame |-> << >> ]
    ELSE [ v |-> v, ifl |-> ifl, drawn |-> FALSE, frame |-> << >> ]

\* Variant of tick_vblank that restarts the counter at 0 on every VBlank line
\* instead of keeping the remainder.
tick_vblank_drop_remainder(v, ifl) ==
    IF v.cycle_counter >= CLOCKS_PER_SCANLINE
    THEN LET ln == U8(v.line + 1)
         IN  IF ln = 154
             THEN [ v |-> [v EXCEPT !.buffer = << >>, !.line = 0, !.cycle_counter = 0,
                                   !.current_mode = "ACCESS_OAM",
                                   !.lcd_status = stat_mode(v.lcd_status, TRUE, FALSE)],
                    ifl |-> ifl, drawn |-> TRUE, frame |-> write_sprites(v) ]
             ELSE [ v |-> [v EXCEPT !.line = ln, !.cycle_counter = 0],
                    ifl |-> ifl, drawn |-> FALSE, frame |-> << >> ]
    ELSE [ v |-> v, ifl |-> ifl, drawn |-> FALSE, frame |-> << >> ]

\* Variant of tick_vblank that ends the frame one line later, at LY = 155.
tick_vblank_extra_line(v, ifl) ==
    IF v.cycle_counter >= CLOCKS_PER_SCANLINE
    THEN LET ln == U8(v.line + 1)
             cc == v.cycle_counter % CLOCKS_PER_SCANLINE
         IN  IF ln = 155
             THEN [ v |-> [v EXCEPT !.buffer = << >>, !.line = 0, !.cycle_counter = cc,
                                   !.current_mode = "ACCESS_OAM",
                                   !.lcd_status = stat_mode(v.lcd_status, TRUE, FALSE)],
                    ifl |-> ifl, drawn |-> TRUE, frame |-> write_sprites(v) ]
             ELSE [ v |-> [v EXCEPT !.line = ln, !.cycle_counter = cc],
                    ifl |-> ifl, drawn |-> FALSE, frame |-> << >> ]
    ELSE [ v |-> v, ifl |-> ifl, drawn |-> FALSE, frame |-> << >> ]

\* case VideoMode::VBLANK.  drawn: Video::draw() invoked the vblank callback;
\* frame: the buffer it was invoked with, as write_sprites() left it.
tick_vblank(v, ifl) ==
    IF v.cycle_counter >= CLOCKS_PER_SCANLINE
    THEN LET ln == U8(v.line + 1)
             cc == v.cycle_counter % CLOCKS_PER_SCANLINE
         IN  IF ln = 154
             THEN [ v |-> [v EXCEPT !.buffer = << >>, !.line = 0, !.cycle_counter = cc,
                                   !.current_mode = "ACCESS_OAM",
                                   !.lcd_status = stat_mode(v.lcd_status, TRUE, FALSE)],
                    ifl |-> ifl, drawn |-> TRUE, frame |-> write_sprites(v) ]
             ELSE [ v |-> [v EXCEPT !.line = ln, !.cycle_counter = cc],
                    ifl |-> ifl, drawn |-> FALSE, frame |-> << >> ]
    ELSE [ v |-> v, ifl |-> ifl, drawn |-> FALSE, frame |-> << >> ]

\* Video::tick(cycles): the Video object, IF and whether the callback ran.
Video_tick(v0, ifl, n) ==
    LET v == [v0 EXCEPT !.cycle_counter = v0.cycle_counter + n]
    IN  CASE v.current_mode = "ACCESS_OAM" -> tick_access_oam(v, ifl)
          [] v.current_mode = "ACCESS_VRAM" -> tick_access_vram(v, ifl)
          [] v.current_mode = "HBLANK" -> tick_hblank(v, ifl)
          [] v.current_mode = "VBLANK" -> tick_vblank(v, ifl)

\* The Video object after construction; control_byte is not initialised
\* by the constructor, lcdc is the value it happens to hold.
VideoInit(lcdc) ==
    [ control_byte |-> lcdc, lcd_status |-> 0, line |-> 0, ly_compare |-> 0,
      current_mode |-> "ACCESS_OAM", cycle_counter |-> 0, buffer |-> << >>,
      debug_disable_background |-> FALSE, debug_disable_sprites |-> FALSE,
      debug_disable_window |-> FALSE ]

\* The vblank callback's record after a Video::tick with result r.
VblankAfter(r) ==
    IF r.drawn THEN [ count |-> vblank.count + 1, frame |-> r.frame ]
    ELSE vblank

\* The object Video::draw hands to the vblank callback: vblank_callback_t takes
\* const FrameBuffer&, and draw() binds it to the member Video::buffer.
vblank_callback_argument == video.buffer

\* The objects Audio::tick hands to the audio callback: the locals left_copy
\* and right_copy, which nothing writes after the call.
audio_callback_argument == << on_audio.left, on_audio.right >>

(***************************************************************************)
(* Audio channels.                                                         *)
(***************************************************************************)
SAMPLE_ONE == 1680            \* 1.0f, in sample units
CYCLES_PER_SAMPLE == 95
BUFFER_THRESHOLD == 1024      \* left_buffer.size() >= 1024

\* static duty_patterns of ToneSweepChannel::get_sample / ToneChannel::get_sample
duty_patterns ==
    << << FALSE, FALSE, FALSE, FALSE, FALSE, FALSE, FALSE, TRUE >>,
       << FALSE, FALSE, FALSE, FALSE, FALSE, FALSE, TRUE, TRUE >>,
       << FALSE, FALSE, FALSE, FALSE, TRUE, TRUE, TRUE, TRUE >>,
       << TRUE, TRUE, TRUE, TRUE, TRUE, TRUE, FALSE, FALSE >> >>

\* static divisors of NoiseChannel::tick / set_counter_register
divisors == << 8, 16, 32, 48, 64, 80, 96, 112 >>

\* Variant of period_timer that grows with the frequency.
period_timer_rising(frequency, factor) ==
    LET freq_val == IF frequency > 2047 THEN 2047 ELSE frequency
    IN  (freq_val + 1) * factor

\* The period reloaded by the square channels (factor 4) and the wave
\* channel (factor 2): timer = (2048 - freq_val) * factor, 8192 * factor if 0.
period_timer(frequency, factor) ==
    LET freq_val == IF frequency > 2047 THEN 2047 ELSE frequency
        timer == (2048 - freq_val) * factor
    IN  IF timer = 0 THEN 8192 * factor ELSE timer

\* The period reloaded by the noise channel.
noise_period(c) ==
    LET divisor == divisors[(c.dividing_ratio % 8) + 1]
        clock_shift == c.shift_clock_frequency % 16
        new_timer_period == divisor * Pow2(clock_shift)
    IN  IF new_timer_period = 0 THEN 8 ELSE new_timer_period

ToneSweepChannel_tick(c, n) ==
    IF ~c.enabled THEN c
    ELSE IF c.timer > n THEN [c EXCEPT !.timer = c.timer - n]
    ELSE [c EXCEPT !.duty_position = (c.duty_position + 1) % 8,
                   !.timer = period_timer(c.frequency, 4)]

ToneChannel_tick(c, n) ==
    IF ~c.enabled THEN c
    ELSE IF c.timer > n THEN [c EXCEPT !.timer = c.timer - n]
    ELSE [c EXCEPT !.duty_position = (c.duty_position + 1) % 8,
                   !.timer = period_timer(c.frequency, 4)]

WaveChannel_tick(c, n) ==
    IF ~c.enabled THEN c
    ELSE IF c.timer > n THEN [c EXCEPT !.timer = c.timer - n]
    ELSE [c EXCEPT !.position = (c.position + 1) % 32,
                   !.timer = period_timer(c.frequency, 2)]

\* Variant of NoiseChannel_tick that ignores the width mode.
NoiseChannel_tick_no_width(c, n) ==
    IF ~c.enabled THEN c
    ELSE IF c.timer > n THEN [c EXCEPT !.timer = c.timer - n]
    ELSE LET xor_result == (c.lfsr % 2) # ((c.lfsr \div 2) % 2)
             shifted == c.lfsr \div 2
         IN  [c EXCEPT !.timer = noise_period(c),
                       !.lfsr = set_bit_to(shifted, 14, xor_result)]

NoiseChannel_tick(c, n) ==
    IF ~c.enabled THEN c
    ELSE IF c.timer > n THEN [c EXCEPT !.timer = c.timer - n]
    ELSE LET xor_result == (c.lfsr % 2) # ((c.lfsr \div 2) % 2)
             shifted == c.lfsr \div 2
             with14 == set_bit_to(shifted, 14, xor_result)
         IN  [c EXCEPT !.timer = noise_period(c),
                       !.lfsr = IF c.counter_step_width_mode
                                THEN set_bit_to(with14, 6, xor_result)
                                ELSE with14]

\* Variant of square_sample whose low half of the duty cycle is silent.
square_sample_unipolar(c) ==
    IF ~c.enabled THEN 0
    ELSE LET high == duty_patterns[c.duty_pattern + 1][c.duty_position + 1]
             level == (c.volume * SAMPLE_ONE) \div 15
         IN  IF high THEN level ELSE 0

\* ToneSweepChannel::get_sample and ToneChannel::get_sample.
square_sample(c) ==
    IF ~c.enabled THEN 0
    ELSE LET high == duty_patterns[c.duty_pattern + 1][c.duty_position + 1]
             level == (c.volume * SAMPLE_ONE) \div 15
         IN  IF high THEN level ELSE -level

\* WaveChannel::get_sample.
wave_sample(c) ==
    IF ~c.enabled THEN 0
    ELSE LET wave_byte == c.wave_pattern[c.position \div 2]
             wave_nibble == IF c.position % 2 = 0 THEN wave_byte \div 16
                            ELSE wave_byte % 16
             full == ((wave_nibble * 2 * SAMPLE_ONE) \div 15) - SAMPLE_ONE
         IN  CASE c.output_level = 0 -> 0
               [] c.output_level = 1 -> full
               [] c.output_level = 2 -> full \div 2
               [] c.output_level = 3 -> full \div 4
               [] OTHER -> 0

\* NoiseChannel::get_sample.
noise_sample(c) ==
    IF ~c.enabled THEN 0
    ELSE LET high == (c.lfsr % 2) = 0
             level == (c.volume * SAMPLE_ONE) \div 15
         IN  IF high THEN level ELSE -level

(***************************************************************************)
(* Channel register setters.                                               *)
(***************************************************************************)
set_sweep_register(c, value) ==
    [c EXCEPT !.sweep_time = (value \div 16) % 8,
              !.sweep_decrease = check_bit(value, 3),
              !.sweep_shift = value % 8]

\* ToneSweepChannel / ToneChannel ::set_length_duty_register
set_length_duty_register(c, value) ==
    [c EXCEPT !.duty_pattern = (value \div 64) % 4,
              !.length_counter = 64 - (value % 64)]

\* ToneSweepChannel / ToneChannel / NoiseChannel ::set_volume_envelope_register
set_volume_envelope_register(c, value) ==
    [c EXCEPT !.envelope_initial_volume = (value \div 16) % 16,
              !.envelope_increase = check_bit(value, 3),
              !.envelope_sweep_pace = value % 8,
              !.volume = (value \div 16) % 16]

\* Variant of set_frequency_lo_register that adds the byte to the frequency.
set_frequency_lo_added(c, value) ==
    [c EXCEPT !.frequency = c.frequency + value]

\* ToneSweepChannel / ToneChannel / WaveChannel ::set_frequency_lo_register
set_frequency_lo_register(c, value) ==
    [c EXCEPT !.frequency = ((c.frequency \div 256) % 8) * 256 + value]

\* Variant of square_set_frequency_hi_register whose trigger keeps the duty
\* position.
square_trigger_keeps_position(c, value) ==
    LET frequency == (c.frequency % 256) + (value % 8) * 256
        c1 == [c EXCEPT !.frequency = frequency]
        c2 == IF check_bit(value, 7)
              THEN [c1 EXCEPT !.enabled = TRUE,
                              !.timer = period_timer(frequency, 4),
                              !.length_counter =
                                  IF c.length_counter = 0 THEN 64 ELSE c.length_counter,
                              !.volume = c.envelope_initial_volume]
              ELSE c1
    IN  [c2 EXCEPT !.length_enabled = check_bit(value, 6)]

\* ToneSweepChannel / ToneChannel ::set_frequency_hi_register
square_set_frequency_hi_register(c, value) ==
    LET frequency == (c.frequency % 256) + (value % 8) * 256
        c1 == [c EXCEPT !.frequency = frequency]
        c2 == IF check_bit(value, 7)
              THEN [c1 EXCEPT !.enabled = TRUE,
                              !.timer = period_timer(frequency, 4),
                              !.length_counter =
                                  IF c.length_counter = 0 THEN 64 ELSE c.length_counter,
                              !.duty_position = 0,
                              !.volume = c.envelope_initial_volume]
              ELSE c1
    IN  [c2 EXCEPT !.length_enabled = check_bit(value, 6)]

\* WaveChannel::set_frequency_hi_register
wave_set_frequency_hi_register(c, value) ==
    LET frequency == (c.frequency % 256) + (value % 8) * 256
        c1 == [c EXCEPT !.frequency = frequency]
        c2 == IF check_bit(value, 7)
              THEN [c1 EXCEPT !.enabled = TRUE,
                              !.timer = period_timer(frequency, 2),
                              !.position = 0,
                              !.length_counter =
                                  IF c.length_counter = 0 THEN 256 ELSE c.length_counter]
              ELSE c1
    IN  [c2 EXCEPT !.length_enabled = check_bit(value, 6)]

\* NoiseChannel::set_polynomial_register
set_polynomial_register(c, value) ==
    [c EXCEPT !.shift_clock_frequency = (value \div 16) % 16,
              !.counter_step_width_mode = check_bit(value, 3),
              !.dividing_ratio = value % 8]

\* NoiseChannel::set_counter_register
set_counter_register(c, value) ==
    LET c1 == IF check_bit(value, 7)
              THEN [c EXCEPT !.enabled = TRUE,
                             !.lfsr = 32767,
                             !.timer = noise_period(c),
                             !.length_counter =
                                 IF c.length_counter = 0 THEN 64 ELSE c.length_counter,
                             !.volume = c.envelope_initial_volume]
              ELSE c
    IN  [c1 EXCEPT !.length_enabled = check_bit(value, 6)]

\* The channels after construction (audio.h member initialisers).
Channel1Init ==
    [ enabled |-> FALSE, volume |-> 0, length_counter |-> 0, length_enabled |-> FALSE,
      sweep_time |-> 0, sweep_decrease |-> FALSE, sweep_shift |-> 0,
      duty_pattern |-> 0, duty_position |-> 0, envelope_initial_volume |-> 0,
      envelope_increase |-> FALSE, envelope_sweep_pace |-> 0,
      frequency |-> 0, timer |-> 0 ]

Channel2Init ==
    [ enabled |-> FALSE, volume |-> 0, length_counter |-> 0, length_enabled |-> FALSE,
      duty_pattern |-> 0, duty_position |-> 0, envelope_initial_volume |-> 0,
      envelope_increase |-> FALSE, envelope_sweep_pace |-> 0,
      frequency |-> 0, timer |-> 0 ]

Channel3Init ==
    [ enabled |-> FALSE, volume |-> 0, length_counter |-> 0, length_enabled |-> FALSE,
      wave_pattern |-> [i \in 0..15 |-> 0], position |-> 0, output_level |-> 0,
      frequency |-> 0, timer |-> 0 ]

Channel4Init ==
    [ enabled |-> FALSE, volume |-> 0, length_counter |-> 0, length_enabled |-> FALSE,
      envelope_initial_volume |-> 0, envelope_increase |-> FALSE,
      envelope_sweep_pace |-> 0, shift_clock_frequency |-> 0,
      counter_step_width_mode |-> FALSE, dividing_ratio |-> 0,
      timer |-> 0, lfsr |-> 32767 ]

(***************************************************************************)
(* Audio.                                                                  *)
(***************************************************************************)
\* std::max(-1.0f, std::min(1.0f, x))
clamp(x) == IF x > SAMPLE_ONE THEN SAMPLE_ONE
            ELSE IF x < -SAMPLE_ONE THEN -SAMPLE_ONE ELSE x

\* Variant of mix_side without the division by four and without the clamp.
mix_side_unscaled(s, nr51, lo, vol) ==
    LET routed == (IF check_bit(nr51, lo + 3) THEN s[4] ELSE 0)
                + (IF check_bit(nr51, lo + 2) THEN s[3] ELSE 0)
                + (IF check_bit(nr51, lo + 1) THEN s[2] ELSE 0)
                + (IF check_bit(nr51, lo) THEN s[1] ELSE 0)
    IN  (routed * vol) \div 7

\* One output side of Audio::mix_samples: the routed sum of the four channel
\* samples s (s[1]..s[4]) under the NR51 bits starting at lo, scaled by the
\* master volume, divided by four and clamped.
mix_side(s, nr51, lo, vol) ==
    LET routed == (IF check_bit(nr51, lo + 3) THEN s[4] ELSE 0)
                + (IF check_bit(nr51, lo + 2) THEN s[3] ELSE 0)
                + (IF check_bit(nr51, lo + 1) THEN s[2] ELSE 0)
                + (IF check_bit(nr51, lo) THEN s[1] ELSE 0)
        scaled == (routed * vol) \div 7
    IN  clamp(scaled \div 4)

\* Audio::mix_samples(): the pair << left, right >> it pushes.
mix_samples(a) ==
    IF ~check_bit(a.nr52, 7) THEN << 0, 0 >>
    ELSE LET s == << square_sample(a.channel1), square_sample(a.channel2),
                     wave_sample(a.channel3), noise_sample(a.channel4) >>
             left_vol == (a.nr50 \div 16) % 8
             right_vol == a.nr50 % 8
         IN  << mix_side(s, a.nr51, 4, left_vol), mix_side(s, a.nr51, 0, right_vol) >>

\* Variant of buffer_full that flushes only above the threshold.
buffer_full_above(left) == Len(left) > BUFFER_THRESHOLD

\* Audio::tick: if (left_buffer.size() >= 1024)
buffer_full(left) == Len(left) >= BUFFER_THRESHOLD

\* The while loop of Audio::tick.  st = [a, cb, mixed]: the Audio object, the
\* audio callback's record and the number of mix_samples() calls.
RECURSIVE sample_loop(_)
sample_loop(st) ==
    IF st.a.sample_counter < CYCLES_PER_SAMPLE THEN st
    ELSE LET pair == mix_samples(st.a)
             left == Append(st.a.left_buffer, pair[1])
             right == Append(st.a.right_buffer, pair[2])
             flush == buffer_full(left)
             a1 == [st.a EXCEPT !.sample_counter = st.a.sample_counter - CYCLES_PER_SAMPLE,
                                !.left_buffer = IF flush THEN << >> ELSE left,
                                !.right_buffer = IF flush THEN << >> ELSE right]
             cb1 == IF flush /\ st.a.audio_callback
                    THEN [ count |-> st.cb.count + 1, left |-> left, right |-> right,
                           delivered |-> st.cb.delivered + Len(left) ]
                    ELSE st.cb
         IN  sample_loop([ a |-> a1, cb |-> cb1, mixed |-> st.mixed + 1 ])

\* Variant of Audio_tick that restarts sample_counter at 0 after a sample.
Audio_tick_counter_restarted(a, cb, m, n) ==
    LET a1 == [a EXCEPT !.channel1 = ToneSweepChannel_tick(a.channel1, n),
                        !.channel2 = ToneChannel_tick(a.channel2, n),
                        !.channel3 = WaveChannel_tick(a.channel3, n),
                        !.channel4 = NoiseChannel_tick(a.channel4, n),
                        !.sample_counter = a.sample_counter + n]
        r == sample_loop([ a |-> a1, cb |-> cb, mixed |-> m ])
    IN  IF r.mixed > m THEN [r EXCEPT !.a.sample_counter = 0] ELSE r

\* Audio::tick(cycles)
Audio_tick(a, cb, m, n) ==
    LET a1 == [a EXCEPT !.channel1 = ToneSweepChannel_tick(a.channel1, n),
                        !.channel2 = ToneChannel_tick(a.channel2, n),
                        !.channel3 = WaveChannel_tick(a.channel3, n),
                        !.channel4 = NoiseChannel_tick(a.channel4, n),
                        !.sample_counter = a.sample_counter + n]
    IN  sample_loop([ a |-> a1, cb |-> cb, mixed |-> m ])

\* Audio::read_register(address)
read_register(a, address) ==
    CASE address = 65296 -> 128
      [] address = 65297 -> 63
      [] address = 65298 -> U8(a.channel1.volume * 16)
      [] address = 65299 -> 255
      [] address = 65300 -> 191
      [] address = 65302 -> 63
      [] address = 65303 -> U8(a.channel2.volume * 16)
      [] address = 65304 -> 255
      [] address = 65305 -> 191
      [] address = 65306 -> IF a.channel3.enabled THEN 255 ELSE 127
      [] address = 65307 -> 255
      [] address = 65308 -> 159
      [] address = 65309 -> 255
      [] address = 65310 -> 191
      [] address = 65312 -> 255
      [] address = 65313 -> U8(a.channel4.volume * 16)
      [] address = 65314 -> 0
      [] address = 65315 -> 191
      [] address = 65316 -> a.nr50
      [] address = 65317 -> a.nr51
      [] address = 65318 ->
            (IF check_bit(a.nr52, 7) THEN 128 ELSE 0) + 112
            + (IF a.channel1.enabled THEN 1 ELSE 0)
            + (IF a.channel2.enabled THEN 2 ELSE 0)
            + (IF a.channel3.enabled THEN 4 ELSE 0)
            + (IF a.channel4.enabled THEN 8 ELSE 0)
      [] address \in 65328..65343 -> a.channel3.wave_pattern[address - 65328]
      [] OTHER -> 255

\* Variant of write_nr52 in which a power-off leaves the channels enabled.
write_nr52_channels_kept(a, value) ==
    LET current_status == a.nr52 % 16
    IN  [a EXCEPT !.nr52 = (IF check_bit(value, 7) THEN 128 ELSE 0) + 112 + current_status]

\* Audio::write_register, case 0xFF26 (NR52).
write_nr52(a, value) ==
    LET was_enabled == check_bit(a.nr52, 7)
        current_status == a.nr52 % 16
        nr52 == (IF check_bit(value, 7) THEN 128 ELSE 0) + 112 + current_status
        now_enabled == check_bit(nr52, 7)
        a1 == [a EXCEPT !.nr52 = nr52]
    IN  IF was_enabled /\ ~now_enabled
        THEN [a1 EXCEPT !.channel1.enabled = FALSE, !.channel2.enabled = FALSE,
                        !.channel3.enabled = FALSE, !.channel4.enabled = FALSE]
        ELSE a1

\* WaveChannel::set_wave_pattern
set_wave_pattern(a, index, value) ==
    IF index < 16 THEN [a EXCEPT !.channel3.wave_pattern[index] = value] ELSE a

\* Audio::write_register(address, value) past the master gate: the register
\* switches.
write_enabled(a, address, value) ==
    LET c1 == a.channel1
        c2 == a.channel2
        c3 == a.channel3
        c4 == a.channel4
    IN       CASE address = 65296 -> [a EXCEPT !.channel1 = set_sweep_register(c1, value)]
               [] address = 65297 -> [a EXCEPT !.channel1 = set_length_duty_register(c1, value)]
               [] address = 65298 -> [a EXCEPT !.channel1 = set_volume_envelope_register(c1, value)]
               [] address = 65299 -> [a EXCEPT !.channel1 = set_frequency_lo_register(c1, value)]
               [] address = 65300 -> [a EXCEPT !.channel1 = square_set_frequency_hi_register(c1, value)]
               [] address = 65302 -> [a EXCEPT !.channel2 = set_length_duty_register(c2, value)]
               [] address = 65303 -> [a EXCEPT !.channel2 = set_volume_envelope_register(c2, value)]
               [] address = 65304 -> [a EXCEPT !.channel2 = set_frequency_lo_register(c2, value)]
               [] address = 65305 -> [a EXCEPT !.channel2 = square_set_frequency_hi_register(c2, value)]
               [] address = 65306 -> [a EXCEPT !.channel3.enabled = check_bit(value, 7)]
               [] address = 65307 -> [a EXCEPT !.channel3.length_counter = 256 - value]
               [] address = 65308 -> [a EXCEPT !.channel3.output_level = (value \div 32) % 4]
               [] address = 65309 -> [a EXCEPT !.channel3 = set_frequency_lo_register(c3, value)]
               [] address = 65310 -> [a EXCEPT !.channel3 = wave_set_frequency_hi_register(c3, value)]
               [] address = 65312 -> [a EXCEPT !.channel4.length_counter = 64 - (value % 64)]
               [] address = 65313 -> [a EXCEPT !.channel4 = set_volume_envelope_register(c4, value)]
               [] address = 65314 -> [a EXCEPT !.channel4 = set_polynomial_register(c4, value)]
               [] address = 65315 -> [a EXCEPT !.channel4 = set_counter_register(c4, value)]
               [] address = 65316 -> [a EXCEPT !.nr50 = value]
               [] address = 65317 -> [a EXCEPT !.nr51 = value]
               [] address = 65318 -> write_nr52(a, value)
               [] address \in 65328..65343 -> set_wave_pattern(a, address - 65328, value)
               [] OTHER -> a

\* Variant of write_register without the master gate.
write_register_ungated(a, address, value) == write_enabled(a, address, value)

\* Audio::write_register(address, value)
write_register(a, address, value) ==
    LET audio_enabled == check_bit(a.nr52, 7)
    IN  IF ~audio_enabled /\ address # 65318
        THEN IF address \in 65328..65343
             THEN set_wave_pattern(a, address - 65328, value)
             ELSE a
        ELSE write_enabled(a, address, value)

\* The Audio object after construction.
AudioInit ==
    [ channel1 |-> Channel1Init, channel2 |-> Channel2Init,
      channel3 |-> Channel3Init, channel4 |-> Channel4Init,
      nr50 |-> 0, nr51 |-> 0, nr52 |-> 0, sample_counter |-> 0,
      left_buffer |-> << >>, right_buffer |-> << >>, audio_callback |-> FALSE ]

OnAudioInit == [ count |-> 0, left |-> << >>, right |-> << >>, delivered |-> 0 ]

(***************************************************************************)
(* Gameboy: the orchestrator.  pc walks through Gameboy::run and, inside   *)
(* it, through the statements of Gameboy::tick.                            *)
(***************************************************************************)
cycles_per_frame == 70224

Components == {"ppu", "apu", "timer"}

NoneFed == [c \in Components |-> 0]

\* Variant of TickSuccessor in which Gameboy::tick feeds the APU before the PPU.
TickSuccessor_audio_first(p) ==
    CASE p = "cpu" -> "audio"
      [] p = "audio" -> "video"
      [] p = "video" -> "timer"
      [] p = "timer" -> "inner"

\* Gameboy::tick: the statement executed after the one at position p;
\* "inner" is the return to the inner loop of Gameboy::run.
TickSuccessor(p) ==
    CASE p = "cpu" -> "video"
      [] p = "video" -> "audio"
      [] p = "audio" -> "timer"
      [] p = "timer" -> "inner"

\* Gameboy::run, line 74, once Gameboy::tick has returned to the inner loop
\* (next = "inner"); the locals of the loop body then hold nothing.
ReturnFromTick(next) ==
    IF next = "inner"
    THEN /\ cycles_this_frame' =
                cycles_this_frame + u32_sub(elapsed_cycles, cycles_before)
         /\ cycles' = 0
         /\ cycles_before' = U32Zero
    ELSE UNCHANGED << cycles_this_frame, cycles, cycles_before >>

\* Gameboy::run up to the first evaluation of the outer loop condition:
\* the callbacks are registered, the audio callback only if one is given.
RunStart(given) ==
    /\ pc = "idle"
    /\ audio' = [audio EXCEPT !.audio_callback = given]
    /\ pc' = "outer"
    /\ UNCHANGED << cycles, elapsed_cycles, cycles_this_frame, cycles_before, frames,
                    cut_short, fed, frame_fed, closed, video, interrupt_flag,
                    vblank, mixed, on_audio >>
    /\ UNCHANGED << host, boot, screen, g_buffers >>

\* while (!should_close_callback()) { cycles_this_frame = 0; ...
\* close is what this call of should_close_callback() returns; after the loop
\* run() returns.  At most max iterations are explored.
OuterCheck(close, max) ==
    /\ pc = "outer"
    /\ closed' = (closed \/ close)
    /\ IF close
       THEN /\ pc' = "done"
            /\ UNCHANGED << cycles_this_frame, frames, cut_short, frame_fed >>
       ELSE /\ frames < max
            /\ pc' = "inner"
            /\ cycles_this_frame' = 0
            /\ frames' = frames + 1
            /\ cut_short' = FALSE
            /\ frame_fed' = NoneFed
    /\ UNCHANGED << cycles, elapsed_cycles, cycles_before, fed, video,
                    interrupt_flag, vblank, audio, mixed, on_audio >>
    /\ UNCHANGED << host, boot, screen, g_buffers >>

\* while (cycles_this_frame < cycles_per_frame && !should_close_callback())
\* should_close_callback() is called, and returns close, only if the first
\* conjunct holds.
InnerCheck(close) ==
    /\ pc = "inner"
    /\ IF cycles_this_frame < cycles_per_frame
       THEN /\ closed' = (closed \/ close)
            /\ IF close
               THEN pc' = "sleep" /\ cut_short' = TRUE
               ELSE pc' = "cpu" /\ UNCHANGED cut_short
       ELSE pc' = "sleep" /\ UNCHANGED << cut_short, closed >>
    /\ UNCHANGED << cycles, elapsed_cycles, cycles_this_frame, cycles_before, frames,
                    fed, frame_fed, video, interrupt_flag, vblank, audio,
                    mixed, on_audio >>
    /\ UNCHANGED << host, boot, screen, g_buffers >>

\* cycles_before = elapsed_cycles; then, in Gameboy::tick,
\* cycles = cpu.tick(); elapsed_cycles += cycles.cycles;
CpuTick ==
    /\ pc = "cpu"
    /\ \E n \in CpuCycles :
          /\ cycles' = n
          /\ elapsed_cycles' = u32_add(elapsed_cycles, n)
    /\ cycles_before' = elapsed_cycles
    /\ pc' = TickSuccessor("cpu")
    /\ UNCHANGED << cycles_this_frame, frames, cut_short, fed, frame_fed, closed,
                    video, interrupt_flag, vblank, audio, mixed, on_audio >>
    /\ UNCHANGED << host, boot, screen, g_buffers >>

\* video.tick(cycles);
StepVideo ==
    /\ pc = "video"
    /\ LET r == Video_tick(video, interrupt_flag, cycles)
       IN  /\ video' = r.v
           /\ interrupt_flag' = r.ifl
           /\ vblank' = VblankAfter(r)
    /\ fed' = [fed EXCEPT !["ppu"] = @ + cycles]
    /\ frame_fed' = [frame_fed EXCEPT !["ppu"] = @ + cycles]
    /\ pc' = TickSuccessor("video")
    /\ ReturnFromTick(TickSuccessor("video"))
    /\ UNCHANGED << elapsed_cycles, frames, cut_short, closed, audio, mixed, on_audio >>
    /\ UNCHANGED << host, boot, screen, g_buffers >>

\* audio.tick(cycles.cycles);
StepAudio ==
    /\ pc = "audio"
    /\ LET r == Audio_tick(audio, on_audio, mixed, cycles)
       IN  /\ audio' = r.a
           /\ on_audio' = r.cb
           /\ mixed' = r.mixed
    /\ fed' = [fed EXCEPT !["apu"] = @ + cycles]
    /\ frame_fed' = [frame_fed EXCEPT !["apu"] = @ + cycles]
    /\ pc' = TickSuccessor("audio")
    /\ ReturnFromTick(TickSuccessor("audio"))
    /\ UNCHANGED << elapsed_cycles, frames, cut_short, closed, video, interrupt_flag,
                    vblank >>
    /\ UNCHANGED << host, boot, screen, g_buffers >>

\* timer.tick(cycles.cycles);  The Timer is not part of this model: only the
\* T-states it is advanced by are recorded.
StepTimer ==
    /\ pc = "timer"
    /\ fed' = [fed EXCEPT !["timer"] = @ + cycles]
    /\ frame_fed' = [frame_fed EXCEPT !["timer"] = @ + cycles]
    /\ pc' = TickSuccessor("timer")
    /\ ReturnFromTick(TickSuccessor("timer"))
    /\ UNCHANGED << elapsed_cycles, frames, cut_short, closed, video, interrupt_flag,
                    vblank, audio, mixed, on_audio >>
    /\ UNCHANGED << host, boot, screen, g_buffers >>

\* The frame pacing sleep at the end of the outer loop body.
FrameSleep ==
    /\ pc = "sleep"
    /\ pc' = "outer"
    /\ UNCHANGED << cycles, elapsed_cycles, cycles_this_frame, cycles_before, frames,
                    cut_short, fed, frame_fed, closed, video, interrupt_flag,
                    vblank, audio, mixed, on_audio >>
    /\ UNCHANGED << host, boot, screen, g_buffers >>

\* The log levels, and the Options the Gameboy constructor reads.
LogLevels == {"Trace", "Debug", "Info", "Warn", "Error"}

OptionSets == [ disable_logs : BOOLEAN, trace : BOOLEAN ]

DefaultOptions == [ disable_logs |-> FALSE, trace |-> FALSE ]

\* log_set_level(level): the level in force afterwards.
log_set_level(current, level) == level

\* Variant of ConstructorLogLevel in which disable_logs has the last word.
ConstructorLogLevel_error_last(options, prior) ==
    IF options.disable_logs THEN "Error"
    ELSE IF options.trace THEN "Trace" ELSE "Info"

\* Gameboy::Gameboy, lines 16-21: the level in force after the body, prior
\* being the level before it.
\*   if (options.disable_logs) log_set_level(LogLevel::Error);
\*   log_set_level(options.trace ? LogLevel::Trace : LogLevel::Info);
ConstructorLogLevel(options, prior) ==
    LET after_disable == IF options.disable_logs
                         THEN log_set_level(prior, "Error") ELSE prior
    IN  log_set_level(after_disable, IF options.trace THEN "Trace" ELSE "Info")

\* The record of a Gameboy constructed with options.
Constructed(options, prior) ==
    [ constructed |-> TRUE, options |-> options,
      log_level |-> ConstructorLogLevel(options, prior) ]

\* main() once it has created emulator_thread: running is true, the main
\* thread is at its while (running), the emulator thread enters gameboy.run()
\* and the SDL audio thread waits for its next period.
HostInit ==
    [ running |-> TRUE, main |-> "loop", emu |-> "outer", sdl |-> "idle",
      audio_mutex |-> "free", video_mutex |-> "free", pending |-> 0,
      frame_updated |-> FALSE, saved |-> FALSE ]

\* The state after the Gameboy is constructed, before run() is called.
\* Video::control_byte is left uninitialised by the constructor: lcdc is the
\* value it happens to hold.
\* std::vector<float> g_left_buffer; std::vector<float> g_right_buffer;
GBuffersInit == [ left |-> 0, right |-> 0, copy_samples |-> 0 ]

\* No row is being rendered at pixel level.
ScreenOff == [ stage |-> "off" ]

InitCoreBoot(lcdc, a, b) ==
    /\ pc = "idle"
    /\ cycles = 0
    /\ elapsed_cycles = U32Zero
    /\ cycles_this_frame = 0
    /\ cycles_before = U32Zero
    /\ frames = 0
    /\ cut_short = FALSE
    /\ fed = NoneFed
    /\ frame_fed = NoneFed
    /\ closed = FALSE
    /\ video = VideoInit(lcdc)
    /\ interrupt_flag = 0
    /\ vblank = [ count |-> 0, frame |-> << >> ]
    /\ audio = a
    /\ mixed = 0
    /\ on_audio = OnAudioInit
    /\ host = HostInit
    /\ boot = b
    /\ screen = ScreenOff
    /\ g_buffers = GBuffersInit

InitCoreWith(lcdc, a) == InitCoreBoot(lcdc, a, Constructed(DefaultOptions, "Info"))

InitCore(lcdc) == InitCoreWith(lcdc, AudioInit)

(***************************************************************************)
(* Spec: Gameboy::run as the SDL host calls it: an audio callback is       *)
(* given, and should_close (return !running) keeps returning true once it  *)
(* has returned true, since the host never sets running back to true.      *)
(***************************************************************************)
Init == \E lcdc \in {0, 179} : InitCore(lcdc)

Start == RunStart(TRUE)

PollOuter == \E close \in BOOLEAN : (closed => close) /\ OuterCheck(close, MaxFrames)

PollInner == \E close \in BOOLEAN : (closed => close) /\ InnerCheck(close)

Next ==
    \/ Start
    \/ PollOuter
    \/ PollInner
    \/ CpuTick
    \/ StepVideo
    \/ StepAudio
    \/ StepTimer
    \/ FrameSleep

Spec == Init /\ [][Next]_vars

(***************************************************************************)
(* SpecPoll: Gameboy::run with an arbitrary should_close predicate (every  *)
(* call may return either value) and with or without an audio callback,    *)
(* over the first T-states of a run.                                       *)
(***************************************************************************)
PollStart == \E given \in BOOLEAN : RunStart(given)

AnyPollOuter == \E close \in BOOLEAN : OuterCheck(close, MaxPollFrames)

AnyPollInner == \E close \in BOOLEAN : InnerCheck(close)

PollCpuTick == fed["timer"] < MaxPollCycles /\ CpuTick

NextPoll ==
    \/ PollStart
    \/ AnyPollOuter
    \/ AnyPollInner
    \/ PollCpuTick
    \/ StepVideo
    \/ StepAudio
    \/ StepTimer
    \/ FrameSleep

SpecPoll == Init /\ [][NextPoll]_vars

(***************************************************************************)
(* SpecPpu: Video::tick alone, fed the cycle counts of arbitrary CPU       *)
(* steps, with no register written in between.                             *)
(***************************************************************************)
InitPpu == \E lcdc \in LcdcValues : InitCore(lcdc)

PpuTick ==
    /\ vblank.count < MaxVblanks
    /\ \E n \in CpuCycles :
          LET r == Video_tick(video, interrupt_flag, n)
          IN  /\ video' = r.v
              /\ interrupt_flag' = r.ifl
              /\ vblank' = VblankAfter(r)
              /\ fed' = [fed EXCEPT !["ppu"] = @ + n]
    /\ UNCHANGED << pc, cycles, elapsed_cycles, cycles_this_frame, cycles_before,
                    frames, cut_short, frame_fed, closed, audio, mixed, on_audio >>
    /\ UNCHANGED << host, boot, screen, g_buffers >>

NextPpu == PpuTick

SpecPpu == InitPpu /\ [][NextPpu]_vars

(***************************************************************************)
(* SpecApu: Audio::tick alone, fed the cycle counts of arbitrary CPU       *)
(* steps; the audio callback is registered before the first tick or never. *)
(***************************************************************************)
coreVars == << pc, cycles, elapsed_cycles, cycles_this_frame, cycles_before, frames,
               cut_short, fed, frame_fed, closed, video, interrupt_flag, vblank,
               audio, mixed, on_audio, boot, screen, g_buffers >>

InitApu == InitCore(0)

\* Audio::register_audio_callback
ApuRegisterCallback ==
    /\ fed["apu"] = 0
    /\ ~audio.audio_callback
    /\ audio' = [audio EXCEPT !.audio_callback = TRUE]
    /\ UNCHANGED << pc, cycles, elapsed_cycles, cycles_this_frame, cycles_before,
                    frames, cut_short, fed, frame_fed, closed, video,
                    interrupt_flag, vblank, mixed, on_audio, host, boot, screen, g_buffers >>

ApuTick ==
    /\ mixed < MaxFlushes * BUFFER_THRESHOLD
    /\ \E n \in CpuCycles :
          LET r == Audio_tick(audio, on_audio, mixed, n)
          IN  /\ audio' = r.a
              /\ on_audio' = r.cb
              /\ mixed' = r.mixed
              /\ fed' = [fed EXCEPT !["apu"] = @ + n]
    /\ UNCHANGED << pc, cycles, elapsed_cycles, cycles_this_frame, cycles_before,
                    frames, cut_short, frame_fed, closed, video, interrupt_flag,
                    vblank, host, boot, screen, g_buffers >>

NextApu == ApuRegisterCallback \/ ApuTick

SpecApu == InitApu /\ [][NextApu]_vars

(***************************************************************************)
(* SpecMix: Audio::mix_samples on channel, NR50 and NR51 configurations    *)
(* drawn from the extremes of their ranges; the APU is on, triggered       *)
(* channels hold a freshly loaded period and the next Audio::tick takes    *)
(* the sample.                                                             *)
(***************************************************************************)
MixVolumes == {0, 15}

MixNibbles == {0, 15}

MixPositions == {0, 7}

MixLfsr == {32767, 32766}

MixNr50 == {7, 119}

MixNr51 == {0, 165, 255}

MixAudio(e1, v1, p1, e2, p2, e3, nib, lvl, e4, l4, nr50, nr51) ==
    [ AudioInit EXCEPT
        !.channel1 = [ Channel1Init EXCEPT !.enabled = e1, !.volume = v1,
                                           !.duty_position = p1,
                                           !.timer = period_timer(0, 4) ],
        !.channel2 = [ Channel2Init EXCEPT !.enabled = e2, !.volume = 15,
                                           !.duty_position = p2,
                                           !.timer = period_timer(0, 4) ],
        !.channel3 = [ Channel3Init EXCEPT !.enabled = e3, !.output_level = lvl,
                                           !.wave_pattern = [i \in 0..15 |-> nib * 17],
                                           !.timer = period_timer(0, 2) ],
        !.channel4 = [ Channel4Init EXCEPT !.enabled = e4, !.volume = 15, !.lfsr = l4,
                                           !.dividing_ratio = 7,
                                           !.timer = divisors[8] ],
        !.nr50 = nr50, !.nr51 = nr51, !.nr52 = 240,
        !.sample_counter = CYCLES_PER_SAMPLE - 4, !.audio_callback = TRUE ]

InitMix ==
    \E e1, e2, e3, e4 \in BOOLEAN, v1 \in MixVolumes, p1, p2 \in MixPositions,
          nib \in MixNibbles, lvl \in 0..3, l4 \in MixLfsr,
          nr50 \in MixNr50, nr51 \in MixNr51 :
          InitCoreWith(0, MixAudio(e1, v1, p1, e2, p2, e3, nib, lvl, e4, l4, nr50, nr51))

MixTick ==
    /\ mixed < MaxMixed
    /\ \E n \in CpuCycles :
          LET r == Audio_tick(audio, on_audio, mixed, n)
          IN  /\ audio' = r.a
              /\ on_audio' = r.cb
              /\ mixed' = r.mixed
              /\ fed' = [fed EXCEPT !["apu"] = @ + n]
    /\ UNCHANGED << pc, cycles, elapsed_cycles, cycles_this_frame, cycles_before,
                    frames, cut_short, frame_fed, closed, video, interrupt_flag,
                    vblank, host, boot, screen, g_buffers >>

NextMix == MixTick

SpecMix == InitMix /\ [][NextMix]_vars

(***************************************************************************)
(* SpecApuRegs: the APU registers under arbitrary MMU writes.              *)
(***************************************************************************)
\* NR12, NR14, NR24, NR30, NR44, NR50, NR51, NR52 and the first wave RAM byte.
ApuAddresses == {65298, 65300, 65305, 65306, 65315, 65316, 65317, 65318, 65328}

ApuValues == {0, 128, 247}

WriteRegister ==
    /\ \E address \in ApuAddresses, value \in ApuValues :
          audio' = write_register(audio, address, value)
    /\ UNCHANGED << pc, cycles, elapsed_cycles, cycles_this_frame, cycles_before,
                    frames, cut_short, fed, frame_fed, closed, video,
                    interrupt_flag, vblank, mixed, on_audio, host, boot, screen, g_buffers >>

NextApuRegs == WriteRegister

SpecApuRegs == InitApu /\ [][NextApuRegs]_vars

(***************************************************************************)
(* SpecHost: the three threads of the SDL host around Gameboy::run.  The   *)
(* emulator thread walks through the loops of Gameboy::run; what a         *)
(* cpu.tick(), video.tick() or audio.tick() does there is left open: any   *)
(* of them may or may not invoke its callback, cpu.tick() may throw, and   *)
(* the frame's cycle budget may or may not be used up.                     *)
(***************************************************************************)
\* Variant of should_close that does not read running.
should_close_never(h) == FALSE

\* [&running]() { return !running; }
should_close(h) == ~h.running

\* while (running), main.cc line 403; the SDL queue then holds some events.
MainLoopCheck ==
    /\ host.main = "loop"
    /\ IF host.running
       THEN \E k \in 0..MaxEvents :
               host' = [host EXCEPT !.main = "events", !.pending = k]
       ELSE host' = [host EXCEPT !.main = "join"]
    /\ UNCHANGED coreVars

\* while (SDL_PollEvent(&e)): one event is handled.
MainEvent ==
    /\ host.main = "events"
    /\ host.pending > 0
    /\ \E e \in {"quit", "escape", "test_tone", "button", "toggle", "other"} :
          host' = [host EXCEPT !.pending = @ - 1,
                               !.running = IF e \in {"quit", "escape"} THEN FALSE ELSE @,
                               !.main = CASE e = "test_tone" -> "tone_lock"
                                          [] e = "button" -> "button"
                                          [] e = "toggle" -> "toggle"
                                          [] OTHER -> @]
    /\ UNCHANGED coreVars

\* gameboy.button_pressed(*button) / gameboy.button_released(*button), called
\* by the main thread: Gameboy forwards to input, the joypad latch.
MainButton ==
    /\ host.main = "button"
    /\ host' = [host EXCEPT !.main = "events"]
    /\ UNCHANGED coreVars

\* gameboy.debug_toggle_background() / _sprites() / _window(), called by the
\* main thread: the flag of the Video object is inverted.
MainToggle ==
    /\ host.main = "toggle"
    /\ \E flag \in {"debug_disable_background", "debug_disable_sprites",
                     "debug_disable_window"} :
          video' = [video EXCEPT ![flag] = ~@]
    /\ host' = [host EXCEPT !.main = "events"]
    /\ UNCHANGED << pc, cycles, elapsed_cycles, cycles_this_frame, cycles_before,
                    frames, cut_short, fed, frame_fed, closed, interrupt_flag,
                    vblank, audio, mixed, on_audio, boot, screen, g_buffers >>

\* generate_test_audio(): std::lock_guard<std::mutex> lock(audio_mutex);
MainToneLock ==
    /\ host.main = "tone_lock"
    /\ host.audio_mutex = "free"
    /\ host' = [host EXCEPT !.audio_mutex = "main", !.main = "tone"]
    /\ UNCHANGED coreVars

\* generate_test_audio(): the inserts, then the lock_guard is destroyed.
MainTone ==
    /\ host.main = "tone"
    /\ host' = [host EXCEPT !.audio_mutex = "free", !.main = "events"]
    /\ UNCHANGED coreVars

\* SDL_PollEvent returns 0.
MainEventsDone ==
    /\ host.main = "events"
    /\ host.pending = 0
    /\ host' = [host EXCEPT !.main = "render_lock"]
    /\ UNCHANGED coreVars

\* std::lock_guard<std::mutex> lock(video_mutex); main.cc line 457
MainRenderLock ==
    /\ host.main = "render_lock"
    /\ host.video_mutex = "free"
    /\ host' = [host EXCEPT !.video_mutex = "main", !.main = "render"]
    /\ UNCHANGED coreVars

\* if (frame_updated) { ...; frame_updated = false; } and the end of the block.
MainRender ==
    /\ host.main = "render"
    /\ host' = [host EXCEPT !.frame_updated = FALSE, !.video_mutex = "free",
                            !.main = "sleep"]
    /\ UNCHANGED coreVars

\* The frame pacing sleep of the main loop.
MainSleep ==
    /\ host.main = "sleep"
    /\ host' = [host EXCEPT !.main = "loop"]
    /\ UNCHANGED coreVars

\* Variant of MainJoin that does not wait for the emulator thread.
MainJoin_no_wait ==
    /\ host.main = "join"
    /\ host' = [host EXCEPT !.main = "save"]
    /\ UNCHANGED coreVars

\* emulator_thread.join();
MainJoin ==
    /\ host.main = "join"
    /\ host.emu = "finished"
    /\ host' = [host EXCEPT !.main = "save"]
    /\ UNCHANGED coreVars

\* write_bytes_to_file(save_filename, gameboy.get_cartridge_ram());
MainSave ==
    /\ host.main = "save"
    /\ host' = [host EXCEPT !.saved = TRUE, !.main = "done"]
    /\ UNCHANGED coreVars

\* Gameboy::run: while (!should_close_callback())
EmuOuter ==
    /\ host.emu = "outer"
    /\ host' = [host EXCEPT !.emu = IF should_close(host) THEN "returned" ELSE "inner"]
    /\ UNCHANGED coreVars

\* Gameboy::run: while (cycles_this_frame < cycles_per_frame &&
\* !should_close_callback()); more is the first conjunct.
EmuInner ==
    /\ host.emu = "inner"
    /\ \E more \in BOOLEAN :
          host' = [host EXCEPT !.emu = IF more /\ ~should_close(host)
                                       THEN "cpu" ELSE "sleep"]
    /\ UNCHANGED coreVars

\* Gameboy::tick: cpu.tick() returns or throws.
EmuCpu ==
    /\ host.emu = "cpu"
    /\ \E throws \in BOOLEAN :
          host' = [host EXCEPT !.emu = IF throws THEN "caught" ELSE "video"]
    /\ UNCHANGED coreVars

\* Gameboy::tick: video.tick(cycles) ends a frame, and calls the vblank
\* callback, or not.
EmuVideo ==
    /\ host.emu = "video"
    /\ \E drawn \in BOOLEAN :
          host' = [host EXCEPT !.emu = IF drawn THEN "vblank_lock" ELSE "audio"]
    /\ UNCHANGED coreVars

\* The vblank callback: std::lock_guard<std::mutex> lock(video_mutex);
EmuVblankLock ==
    /\ host.emu = "vblank_lock"
    /\ host.video_mutex = "free"
    /\ host' = [host EXCEPT !.video_mutex = "emu", !.emu = "vblank_store"]
    /\ UNCHANGED coreVars

\* The vblank callback: current_frame_buffer = rgb_buffer; frame_updated = true;
EmuVblankStore ==
    /\ host.emu = "vblank_store"
    /\ host' = [host EXCEPT !.frame_updated = TRUE, !.video_mutex = "free",
                            !.emu = "audio"]
    /\ UNCHANGED coreVars

\* Gameboy::tick: audio.tick(cycles) flushes its buffers to the audio
\* callback or not; timer.tick(cycles) follows.
EmuAudio ==
    /\ host.emu = "audio"
    /\ \E flush \in BOOLEAN :
          host' = [host EXCEPT !.emu = IF flush THEN "audio_lock" ELSE "inner"]
    /\ UNCHANGED coreVars

\* The audio callback: std::lock_guard<std::mutex> lock(audio_mutex);
EmuAudioLock ==
    /\ host.emu = "audio_lock"
    /\ host.audio_mutex = "free"
    /\ host' = [host EXCEPT !.audio_mutex = "emu", !.emu = "audio_store"]
    /\ UNCHANGED coreVars

\* The audio callback: the inserts into g_left_buffer and g_right_buffer.
EmuAudioStore ==
    /\ host.emu = "audio_store"
    /\ host' = [host EXCEPT !.audio_mutex = "free", !.emu = "inner"]
    /\ UNCHANGED coreVars

\* Gameboy::run: the frame pacing sleep.
EmuSleep ==
    /\ host.emu = "sleep"
    /\ host' = [host EXCEPT !.emu = "outer"]
    /\ UNCHANGED coreVars

\* gameboy.run() has returned: the thread function ends.
EmuReturn ==
    /\ host.emu = "returned"
    /\ host' = [host EXCEPT !.emu = "finished"]
    /\ UNCHANGED coreVars

\* catch (...) { running = false; }
EmuCatch ==
    /\ host.emu = "caught"
    /\ host' = [host EXCEPT !.running = FALSE, !.emu = "finished"]
    /\ UNCHANGED coreVars

\* SDL calls audio_callback on its audio thread.
SdlWake ==
    /\ host.sdl = "idle"
    /\ host' = [host EXCEPT !.sdl = "lock"]
    /\ UNCHANGED coreVars

\* Variant of SdlLock in which audio_callback takes no lock.
SdlLock_without_mutex ==
    /\ host.sdl = "lock"
    /\ host' = [host EXCEPT !.sdl = "copy"]
    /\ UNCHANGED coreVars

\* audio_callback: std::lock_guard<std::mutex> lock(audio_mutex);
SdlLock ==
    /\ host.sdl = "lock"
    /\ host.audio_mutex = "free"
    /\ host' = [host EXCEPT !.audio_mutex = "sdl", !.sdl = "copy"]
    /\ UNCHANGED coreVars

\* audio_callback: the copy out of the global buffers, then it returns.
SdlCopy ==
    /\ host.sdl = "copy"
    /\ host' = [host EXCEPT !.audio_mutex = "free", !.sdl = "idle"]
    /\ UNCHANGED coreVars

MainStep ==
    \/ MainLoopCheck
    \/ MainEvent
    \/ MainButton
    \/ MainToggle
    \/ MainTone
    \/ MainEventsDone
    \/ MainRender
    \/ MainSleep
    \/ MainJoin
    \/ MainSave

EmuStep ==
    \/ EmuOuter
    \/ EmuInner
    \/ EmuCpu
    \/ EmuVideo
    \/ EmuVblankStore
    \/ EmuAudio
    \/ EmuAudioStore
    \/ EmuSleep
    \/ EmuReturn
    \/ EmuCatch

SdlStep == SdlWake \/ SdlLock \/ SdlCopy

NextHost ==
    \/ MainStep
    \/ MainToneLock
    \/ MainRenderLock
    \/ EmuStep
    \/ EmuVblankLock
    \/ EmuAudioLock
    \/ SdlStep

\* Fair scheduling: a thread that can take a step eventually takes it, and a
\* thread waiting for a mutex that is free again and again eventually gets it.
FairHost ==
    /\ WF_vars(MainStep)
    /\ SF_vars(MainToneLock)
    /\ SF_vars(MainRenderLock)
    /\ WF_vars(EmuStep)
    /\ SF_vars(EmuVblankLock)
    /\ SF_vars(EmuAudioLock)
    /\ WF_vars(SdlCopy)

SpecHost == Init /\ [][NextHost]_vars /\ FairHost

(***************************************************************************)
(* SpecCtor: the Gameboy constructor, given any Options while any log      *)
(* level is in force, followed by Gameboy::run as in SpecPoll.             *)
(***************************************************************************)
InitCtor ==
    \E lcdc \in {0, 179}, options \in OptionSets, prior \in LogLevels :
        InitCoreBoot(lcdc, AudioInit,
                     [ constructed |-> FALSE, options |-> options, log_level |-> prior ])

\* Gameboy::Gameboy
Construct ==
    /\ ~boot.constructed
    /\ boot' = Constructed(boot.options, boot.log_level)
    /\ UNCHANGED << pc, cycles, elapsed_cycles, cycles_this_frame, cycles_before,
                    frames, cut_short, fed, frame_fed, closed, video,
                    interrupt_flag, vblank, audio, mixed, on_audio, host, screen, g_buffers >>

RunConstructed == boot.constructed /\ NextPoll

NextCtor == Construct \/ RunConstructed

SpecCtor == InitCtor /\ [][NextCtor]_vars

(***************************************************************************)
(* SpecWrap: Gameboy::run some sixteen minutes into a run, 4 * WrapSteps   *)
(* T-states before elapsed_cycles reaches 2^32.  The initial state is the  *)
(* one reached from construction with LCDC = 0x91 and the APU off when     *)
(* every CPU step so far cost 4 cycles and should_close never returned     *)
(* true; the history counters (fed, frames, mixed, the callback records)   *)
(* count from that state on.                                               *)
(***************************************************************************)
RECURSIVE Pow2Mod(_, _)
\* 2^n modulo m.
Pow2Mod(n, m) == IF n = 0 THEN 1 % m ELSE (2 * Pow2Mod(n - 1, m)) % m

\* (2^32 - k) modulo m.
BeforeWrapMod(k, m) == (Pow2Mod(32, m) - k) % m

\* elapsed_cycles = 2^32 - k.
BeforeWrap(k) == [ hi |-> 65535, lo |-> 65536 - k ]

\* The Video object at position pos of a frame, pos inside VBlank: all 144
\* lines are drawn, LY and the counter follow from pos, STAT shows mode 1.
VideoInVblank(lcdc, pos) ==
    [ VideoInit(lcdc) EXCEPT
        !.line = pos \div CLOCKS_PER_SCANLINE,
        !.cycle_counter = pos % CLOCKS_PER_SCANLINE,
        !.current_mode = "VBLANK",
        !.lcd_status = stat_mode(0, FALSE, TRUE),
        !.buffer = [ i \in 1..SCANLINES_PER_FRAME |-> << "bg", i - 1 >> ] ]

\* The Audio object, never powered on, after t T-states modulo
\* CYCLES_PER_SAMPLE * BUFFER_THRESHOLD: silence in the buffers.
AudioSilentAt(t) ==
    [ AudioInit EXCEPT
        !.sample_counter = t % CYCLES_PER_SAMPLE,
        !.left_buffer = [ i \in 1..(t \div CYCLES_PER_SAMPLE) |-> 0 ],
        !.right_buffer = [ i \in 1..(t \div CYCLES_PER_SAMPLE) |-> 0 ],
        !.audio_callback = TRUE ]

InitWrap ==
    LET k == 4 * WrapSteps
        pos == BeforeWrapMod(k, cycles_per_frame)
    IN  /\ pc = "inner"
        /\ cycles = 0
        /\ elapsed_cycles = BeforeWrap(k)
        /\ cycles_this_frame = pos
        /\ cycles_before = U32Zero
        /\ frames = 0
        /\ cut_short = FALSE
        /\ fed = NoneFed
        /\ frame_fed = [ c \in Components |-> pos ]
        /\ closed = FALSE
        /\ video = VideoInVblank(145, pos)
        /\ interrupt_flag = 1
        /\ vblank = [ count |-> 0, frame |-> << >> ]
        /\ audio = AudioSilentAt(BeforeWrapMod(k, CYCLES_PER_SAMPLE * BUFFER_THRESHOLD))
        /\ mixed = 0
        /\ on_audio = OnAudioInit
        /\ host = HostInit
        /\ boot = Constructed(DefaultOptions, "Info")
        /\ screen = ScreenOff
        /\ g_buffers = GBuffersInit

WrapPollOuter == \E close \in BOOLEAN : OuterCheck(close, MaxPollFrames)

WrapPollInner == \E close \in BOOLEAN : InnerCheck(close)

WrapCpuTick == fed["timer"] < 8 * WrapSteps /\ CpuTick

NextWrap ==
    \/ WrapPollOuter
    \/ WrapPollInner
    \/ WrapCpuTick
    \/ StepVideo
    \/ StepAudio
    \/ StepTimer
    \/ FrameSleep

SpecWrap == InitWrap /\ [][NextWrap]_vars

(***************************************************************************)
(* SpecTone: a program that powers the APU on and programs the square      *)
(* channels through Audio::write_register in any order, then lets          *)
(* Audio::tick run for the first sample period while it still writes NR50  *)
(* and NR51.                                                               *)
(***************************************************************************)
\* << address, value >> pairs the program writes: NR52, NR11, NR12, NR14,
\* NR22, NR24, NR50, NR51.
ToneWrites ==
    { << 65318, 128 >>, << 65318, 0 >>,
      << 65297, 128 >>, << 65298, 240 >>, << 65300, 135 >>,
      << 65303, 160 >>, << 65305, 135 >>,
      << 65316, 119 >>, << 65316, 53 >>,
      << 65317, 17 >>, << 65317, 16 >>, << 65317, 255 >> }

InitTone == InitCore(0)

ToneWrite ==
    /\ \E w \in ToneWrites :
          /\ fed["apu"] = 0 \/ w[1] \in {65316, 65317}
          /\ audio' = write_register(audio, w[1], w[2])
    /\ UNCHANGED << pc, cycles, elapsed_cycles, cycles_this_frame, cycles_before,
                    frames, cut_short, fed, frame_fed, closed, video,
                    interrupt_flag, vblank, mixed, on_audio, host, boot, screen, g_buffers >>

ToneTick ==
    /\ fed["apu"] < MaxToneCycles
    /\ \E n \in CpuCycles :
          LET r == Audio_tick(audio, on_audio, mixed, n)
          IN  /\ audio' = r.a
              /\ on_audio' = r.cb
              /\ mixed' = r.mixed
              /\ fed' = [fed EXCEPT !["apu"] = @ + n]
    /\ UNCHANGED << pc, cycles, elapsed_cycles, cycles_this_frame, cycles_before,
                    frames, cut_short, frame_fed, closed, video, interrupt_flag,
                    vblank, host, boot, screen, g_buffers >>

NextTone == ToneWrite \/ ToneTick

SpecTone == InitTone /\ [][NextTone]_vars

(***************************************************************************)
(* SpecStat: Video::tick with LCDC = 0x91 under a program that writes the  *)
(* STAT interrupt enables (0xFF41) and LYC (0xFF45).  The MMU that routes  *)
(* the two writes is not part of the sources: a STAT write is taken to     *)
(* replace the enable bits 3..6 and keep bits 0..2, an LYC write to        *)
(* replace ly_compare.                                                     *)
(***************************************************************************)
InitStat == InitCore(145)

StatWrite ==
    /\ \/ \E enables \in {0, 8, 48, 64} :
             video' = [video EXCEPT !.lcd_status = (video.lcd_status % 8) + enables]
       \/ \E lyc \in {0, 77, 150} :
             video' = [video EXCEPT !.ly_compare = lyc]
    /\ UNCHANGED << pc, cycles, elapsed_cycles, cycles_this_frame, cycles_before,
                    frames, cut_short, fed, frame_fed, closed, interrupt_flag,
                    vblank, audio, mixed, on_audio, host, boot, screen, g_buffers >>

StatTick == vblank.count < MaxStatFrames /\ PpuTick

NextStat == StatWrite \/ StatTick

SpecStat == InitStat /\ [][NextStat]_vars

(***************************************************************************)
(* SpecChan: a program that writes NR52, NR11..NR14, NR24, NR34, NR43, NR44 *)
(* through Audio::write_register at any time, triggers included, while     *)
(* Audio::tick runs for the first MaxChanCycles T-states.                  *)
(***************************************************************************)
ChanWrite ==
    /\ \E w \in { << 65318, 128 >>, << 65297, 138 >>, << 65298, 240 >>,
                  << 65299, 255 >>, << 65300, 135 >>, << 65300, 199 >>,
                  << 65305, 135 >>,
                  << 65310, 135 >>, << 65314, 8 >>,
                  << 65315, 128 >> } :
          audio' = write_register(audio, w[1], w[2])
    /\ UNCHANGED << pc, cycles, elapsed_cycles, cycles_this_frame, cycles_before,
                    frames, cut_short, fed, frame_fed, closed, video,
                    interrupt_flag, vblank, mixed, on_audio, host, boot, screen, g_buffers >>

ChanTick ==
    /\ fed["apu"] < MaxChanCycles
    /\ \E n \in CpuCycles :
          LET r == Audio_tick(audio, on_audio, mixed, n)
          IN  /\ audio' = r.a
              /\ on_audio' = r.cb
              /\ mixed' = r.mixed
              /\ fed' = [fed EXCEPT !["apu"] = @ + n]
    /\ UNCHANGED << pc, cycles, elapsed_cycles, cycles_this_frame, cycles_before,
                    frames, cut_short, frame_fed, closed, video, interrupt_flag,
                    vblank, host, boot, screen, g_buffers >>

NextChan == ChanWrite \/ ChanTick

SpecChan == InitApu /\ [][NextChan]_vars

(***************************************************************************)
(* SpecSeq: Audio::tick for two periods of the 512 Hz frame sequencer      *)
(* after a program has powered the APU on and triggered channel 1 with     *)
(* the length counter enabled: NR52 = 0x80, NR11 = 0x8A (length 54),       *)
(* NR12 = 0xF0, NR13 = 0xFF, NR14 = 0xC7.                                  *)
(***************************************************************************)
InitSeq ==
    InitCoreWith(0,
        write_register(write_register(write_register(write_register(write_register(
            AudioInit, 65318, 128), 65297, 138), 65298, 240), 65299, 255), 65300, 199))

SeqTick ==
    /\ fed["apu"] < MaxSeqCycles
    /\ \E n \in CpuCycles :
          LET r == Audio_tick(audio, on_audio, mixed, n)
          IN  /\ audio' = r.a
              /\ on_audio' = r.cb
              /\ mixed' = r.mixed
              /\ fed' = [fed EXCEPT !["apu"] = @ + n]
    /\ UNCHANGED << pc, cycles, elapsed_cycles, cycles_this_frame, cycles_before,
                    frames, cut_short, frame_fed, closed, video, interrupt_flag,
                    vblank, host, boot, screen, g_buffers >>

SpecSeq == InitSeq /\ [][SeqTick]_vars

(***************************************************************************)
(* SpecNoise: Audio::tick for the first MaxToneCycles T-states after a     *)
(* program has powered the APU on, written NR43 (0x00; 0x08: width mode;   *)
(* 0x11: ratio 1, shift 1) and triggered the noise channel with NR44.      *)
(***************************************************************************)
InitNoise ==
    \E nr43 \in {0, 8, 17} :
        InitCoreWith(0,
            write_register(write_register(write_register(
                AudioInit, 65318, 128), 65314, nr43), 65315, 128))

SpecNoise == InitNoise /\ [][ToneTick]_vars

(***************************************************************************)
(* SpecPeriod: Audio::tick for the first MaxToneCycles T-states after a    *)
(* program has powered the APU on and triggered channel 1 at any of the    *)
(* 2048 frequencies: NR13 = low byte, NR14 = 0x80 + the three high bits.   *)
(***************************************************************************)
InitPeriod ==
    \E lo \in 0..255, hi \in 0..7 :
        InitCoreWith(0,
            write_register(write_register(write_register(
                AudioInit, 65318, 128), 65299, lo), 65300, 128 + hi))

SpecPeriod == InitPeriod /\ [][ToneTick]_vars

(***************************************************************************)
(* SpecRender: the pixels of one row of the frame buffer.  Init draws the  *)
(* registers (LCDC, LY, WY, WX, BGP), the VRAM content (background and     *)
(* window maps filled with one tile of a single colour index each) and two *)
(* OAM entries on the row; RenderScanline is Video::write_scanline for the *)
(* row, RenderSprites is Video::write_sprites.  A pixel keeps, next to the *)
(* Color the frame buffer stores, where it came from: the layer, the       *)
(* column of the map it was read from (a uint, as 16-bit halves), and the  *)
(* pre-palette index of the background or window pixel under it.           *)
(***************************************************************************)
GAMEBOY_WIDTH == 160
GAMEBOY_HEIGHT == 144
BG_MAP_SIZE == 256
OAM_ENTRIES == 40

\* Video::get_real_color
get_real_color(pixel_value) ==
    CASE pixel_value = 0 -> "White"
      [] pixel_value = 1 -> "LightGray"
      [] pixel_value = 2 -> "DarkGray"
      [] pixel_value = 3 -> "Black"

\* Video::load_palette: the Color of each of the four indices.
load_palette(palette_value) ==
    [ c \in 0..3 |-> get_real_color((palette_value \div Pow2(2 * c)) % 4) ]

\* Video::get_color_from_palette
get_color_from_palette(color, palette) == palette[color]

\* Video::get_original_color_at: the index guessed from the Color on screen.
get_original_color_at(row, x) ==
    CASE row[x].color = "White" -> 0
      [] row[x].color = "LightGray" -> 1
      [] row[x].color = "DarkGray" -> 2
      [] row[x].color = "Black" -> 3

\* screen_x + window_x - 7 in uint arithmetic.
window_scrolled_x(screen_x, wx) ==
    IF screen_x + wx >= 7 THEN [ hi |-> 0, lo |-> screen_x + wx - 7 ]
    ELSE [ hi |-> 65535, lo |-> 65536 + screen_x + wx - 7 ]

\* Video::draw_bg_line: the row afterwards.
draw_bg_line(s) ==
    LET palette == load_palette(s.bg_palette)
    IN  [ screen_x \in 0..(GAMEBOY_WIDTH - 1) |->
            [ color |-> get_color_from_palette(s.bg_index, palette),
              layer |-> "bg",
              col   |-> [ hi |-> 0, lo |-> (screen_x + s.scroll_x) % BG_MAP_SIZE ],
              index |-> s.bg_index ] ]

\* Video::draw_window_line: the row afterwards.
draw_window_line(s, row) ==
    LET palette == load_palette(s.bg_palette)
    IN  IF s.line < s.window_y \/ s.line - s.window_y >= GAMEBOY_HEIGHT THEN row
        ELSE [ screen_x \in 0..(GAMEBOY_WIDTH - 1) |->
                 [ color |-> get_color_from_palette(s.window_index, palette),
                   layer |-> "window",
                   col   |-> window_scrolled_x(screen_x, s.window_x),
                   index |-> s.window_index ] ]

\* Video::write_scanline at pixel level: the row afterwards.
scanline_row(s) ==
    IF ~display_enabled(s) THEN s.row
    ELSE LET r1 == IF bg_enabled(s) /\ ~s.debug_disable_background
                   THEN draw_bg_line(s) ELSE s.row
         IN  IF window_enabled(s) /\ ~s.debug_disable_window
             THEN draw_window_line(s, r1) ELSE r1

\* Video::draw_sprite for the one line of the sprite that lies on the row.
draw_sprite(s, row, sprite_n) ==
    LET o == s.oam[sprite_n]
        palette == load_palette(s.sprite_palette_0)
        covered == { x \in 0..(GAMEBOY_WIDTH - 1) : x >= o.x - 8 /\ x < o.x }
        obj_behind_bg == check_bit(o.attrs, 7)
    IN  IF o.y = 0 \/ o.y >= 160 \/ o.x = 0 \/ o.x >= 168 THEN row
        ELSE IF o.y - 16 > s.line \/ s.line >= o.y - 16 + 8 THEN row
        ELSE [ x \in 0..(GAMEBOY_WIDTH - 1) |->
                 IF /\ x \in covered
                    /\ o.color # 0
                    /\ ~(obj_behind_bg /\ get_original_color_at(row, x) # 0)
                 THEN [ color |-> get_color_from_palette(o.color, palette),
                        layer |-> "sprite", col |-> [ hi |-> 0, lo |-> sprite_n ],
                        index |-> row[x].index ]
                 ELSE row[x] ]

\* The loop of Video::write_sprites from sprite_n on.
RECURSIVE sprite_loop(_, _, _)
sprite_loop(s, row, sprite_n) ==
    IF sprite_n >= OAM_ENTRIES THEN row
    ELSE sprite_loop(s, draw_sprite(s, row, sprite_n), sprite_n + 1)

\* Video::write_sprites at pixel level: the row afterwards.
sprites_row(s) ==
    IF ~sprites_enabled(s) \/ s.debug_disable_sprites THEN s.row
    ELSE sprite_loop(s, s.row, 0)

HiddenSprite == [ y |-> 0, x |-> 0, attrs |-> 0, color |-> 0 ]

InitRender ==
    /\ pc = "idle"
    /\ cycles = 0
    /\ elapsed_cycles = U32Zero
    /\ cycles_this_frame = 0
    /\ cycles_before = U32Zero
    /\ frames = 0
    /\ cut_short = FALSE
    /\ fed = NoneFed
    /\ frame_fed = NoneFed
    /\ closed = FALSE
    /\ video = VideoInit(147)
    /\ interrupt_flag = 0
    /\ vblank = [ count |-> 0, frame |-> << >> ]
    /\ audio = AudioInit
    /\ mixed = 0
    /\ on_audio = OnAudioInit
    /\ host = HostInit
    /\ g_buffers = GBuffersInit
    /\ boot = Constructed(DefaultOptions, "Info")
    /\ \E lcdc \in {147, 179}, ly \in {0, 72, 143}, wy \in {0, 72, 100},
          wx \in {0, 7, 87, 166}, bgp \in {228, 27, 0}, bgi \in {0, 3},
          wi \in {0, 2}, x0 \in {0, 90}, attrs1 \in {0, 128} :
         screen = [ stage |-> "reset",
                    control_byte |-> lcdc,
                    debug_disable_background |-> FALSE,
                    debug_disable_window |-> FALSE,
                    debug_disable_sprites |-> FALSE,
                    line |-> ly, window_y |-> wy, window_x |-> wx,
                    scroll_x |-> 0,
                    bg_palette |-> bgp, sprite_palette_0 |-> 228,
                    bg_index |-> bgi, window_index |-> wi,
                    oam |-> [ n \in 0..(OAM_ENTRIES - 1) |->
                                CASE n = 0 -> [ y |-> ly + 16, x |-> x0,
                                                attrs |-> 0, color |-> 1 ]
                                  [] n = 1 -> [ y |-> ly + 16, x |-> 92,
                                                attrs |-> attrs1, color |-> 3 ]
                                  [] OTHER -> HiddenSprite ],
                    row |-> [ x \in 0..(GAMEBOY_WIDTH - 1) |->
                                [ color |-> "White", layer |-> "reset",
                                  col |-> U32Zero, index |-> 0 ] ] ]

\* Video::write_scanline(line), called from Video::tick for each visible line.
RenderScanline ==
    /\ screen.stage = "reset"
    /\ screen' = [ screen EXCEPT !.stage = "scanline", !.row = scanline_row(screen) ]
    /\ UNCHANGED << pc, cycles, elapsed_cycles, cycles_this_frame, cycles_before,
                    frames, cut_short, fed, frame_fed, closed, video,
                    interrupt_flag, vblank, audio, mixed, on_audio, host, boot, g_buffers >>

\* Video::write_sprites(), called from Video::tick at the end of VBlank.
RenderSprites ==
    /\ screen.stage = "scanline"
    /\ screen' = [ screen EXCEPT !.stage = "sprites", !.row = sprites_row(screen) ]
    /\ UNCHANGED << pc, cycles, elapsed_cycles, cycles_this_frame, cycles_before,
                    frames, cut_short, fed, frame_fed, closed, video,
                    interrupt_flag, vblank, audio, mixed, on_audio, host, boot, g_buffers >>

NextRender == RenderScanline \/ RenderSprites

SpecRender == InitRender /\ [][NextRender]_vars

(***************************************************************************)
(* SpecPower: the APU from reset under writes that power it on and off     *)
(* (NR52), trigger each channel (NR14, NR24, NR34, NR44 with bit 7), set   *)
(* and clear NR30 bit 7 and write NR12, interleaved with Audio::tick.      *)
(***************************************************************************)
PowerWrite ==
    /\ \E w \in { << 65318, 128 >>, << 65318, 0 >>, << 65298, 240 >>,
                  << 65300, 135 >>, << 65305, 128 >>, << 65306, 128 >>,
                  << 65306, 0 >>, << 65310, 128 >>, << 65315, 128 >> } :
          audio' = write_register(audio, w[1], w[2])
    /\ UNCHANGED << pc, cycles, elapsed_cycles, cycles_this_frame, cycles_before,
                    frames, cut_short, fed, frame_fed, closed, video,
                    interrupt_flag, vblank, mixed, on_audio, host, boot, screen, g_buffers >>

NextPower == PowerWrite \/ ChanTick

SpecPower == InitApu /\ [][NextPower]_vars

(***************************************************************************)
(* SpecLfsr: the noise channel after a trigger, under NR43 writes that     *)
(* set and clear the width mode (divisor 8, shift 0), further triggers,    *)
(* and Audio::tick for MaxLfsrCycles T-states.                             *)
(***************************************************************************)
LfsrWrite ==
    /\ \E w \in { << 65314, 0 >>, << 65314, 8 >>, << 65315, 128 >> } :
          audio' = write_register(audio, w[1], w[2])
    /\ UNCHANGED << pc, cycles, elapsed_cycles, cycles_this_frame, cycles_before,
                    frames, cut_short, fed, frame_fed, closed, video,
                    interrupt_flag, vblank, mixed, on_audio, host, boot, screen, g_buffers >>

LfsrTick ==
    /\ fed["apu"] < MaxLfsrCycles
    /\ \E n \in CpuCycles :
          LET r == Audio_tick(audio, on_audio, mixed, n)
          IN  /\ audio' = r.a
              /\ on_audio' = r.cb
              /\ mixed' = r.mixed
              /\ fed' = [fed EXCEPT !["apu"] = @ + n]
    /\ UNCHANGED << pc, cycles, elapsed_cycles, cycles_this_frame, cycles_before,
                    frames, cut_short, frame_fed, closed, video, interrupt_flag,
                    vblank, host, boot, screen, g_buffers >>

NextLfsr == LfsrWrite \/ LfsrTick

\* NR52 = 0x80, then NR44 = 0x80: the channel is triggered in 15-bit mode.
InitLfsr ==
    InitCoreWith(0, write_register(write_register(AudioInit, 65318, 128), 65315, 128))

SpecLfsr == InitLfsr /\ [][NextLfsr]_vars

(***************************************************************************)
(* SpecDrift: one iteration of the outer loop of Gameboy::run, about 73    *)
(* seconds into a run.  The initial state is the one reached from          *)
(* construction with LCDC = 0x91 and the APU off after DriftFrames         *)
(* iterations in which every CPU step cost 20 cycles (3512 steps, 70240    *)
(* T-states per iteration) and should_close never returned true; the       *)
(* history counters (fed, frames, mixed, the callback records) count from  *)
(* that state on.                                                          *)
(***************************************************************************)
InitDrift ==
    LET total == DriftFrames * (3512 * 20)
        pos == total % CLOCKS_PER_FRAME
    IN  /\ pc = "outer"
        /\ cycles = 20
        /\ elapsed_cycles = [ hi |-> total \div 65536, lo |-> total % 65536 ]
        /\ cycles_this_frame = 3512 * 20
        /\ cycles_before = [ hi |-> (total - 20) \div 65536, lo |-> (total - 20) % 65536 ]
        /\ frames = 0
        /\ cut_short = FALSE
        /\ fed = NoneFed
        /\ frame_fed = NoneFed
        /\ closed = FALSE
        /\ video = VideoInVblank(145, pos)
        /\ interrupt_flag = 1
        /\ vblank = [ count |-> 0, frame |-> << >> ]
        /\ audio = AudioSilentAt(total % (CYCLES_PER_SAMPLE * BUFFER_THRESHOLD))
        /\ mixed = 0
        /\ on_audio = OnAudioInit
        /\ host = HostInit
        /\ boot = Constructed(DefaultOptions, "Info")
        /\ screen = ScreenOff
        /\ g_buffers = GBuffersInit

NextDrift ==
    \/ PollOuter
    \/ PollInner
    \/ CpuTick
    \/ StepVideo
    \/ StepAudio
    \/ StepTimer
    \/ FrameSleep

SpecDrift == InitDrift /\ [][NextDrift]_vars

(***************************************************************************)
(* SpecHostAudio: the three threads of the SDL host at g_left_buffer and   *)
(* g_right_buffer, one statement at a time.  The emulator thread's         *)
(* Audio::tick hands 1024 left and 1024 right samples to the on_audio      *)
(* lambda again and again, the SDL audio thread runs audio_callback for    *)
(* periods of 1024 sample frames, and the main thread handles up to        *)
(* MaxEvents presses of the T key with generate_test_audio().  The         *)
(* buffers are kept as their lengths.                                      *)
(***************************************************************************)
TEST_TONE_SAMPLES == 22050
max_buffer_size == 88200
SDL_SAMPLES == 1024

InitHostAudio ==
    /\ pc = "idle"
    /\ cycles = 0
    /\ elapsed_cycles = U32Zero
    /\ cycles_this_frame = 0
    /\ cycles_before = U32Zero
    /\ frames = 0
    /\ cut_short = FALSE
    /\ fed = NoneFed
    /\ frame_fed = NoneFed
    /\ closed = FALSE
    /\ video = VideoInit(0)
    /\ interrupt_flag = 0
    /\ vblank = [ count |-> 0, frame |-> << >> ]
    /\ audio = AudioInit
    /\ mixed = 0
    /\ on_audio = OnAudioInit
    /\ host = [ HostInit EXCEPT !.main = "events", !.pending = MaxEvents,
                                !.emu = "audio" ]
    /\ boot = Constructed(DefaultOptions, "Info")
    /\ screen = ScreenOff
    /\ g_buffers = GBuffersInit

\* The main thread: case SDLK_t of the event loop, then generate_test_audio()
\* after its lock_guard: the two inserts, then the lock_guard is destroyed.
ToneStep ==
    /\ \/ /\ host.main = "events" /\ host.pending > 0
          /\ host' = [host EXCEPT !.pending = @ - 1, !.main = "tone_lock"]
          /\ UNCHANGED g_buffers
       \/ /\ host.main = "tone"
          /\ g_buffers' = [g_buffers EXCEPT !.left = @ + TEST_TONE_SAMPLES]
          /\ host' = [host EXCEPT !.main = "tone_right"]
       \/ /\ host.main = "tone_right"
          /\ g_buffers' = [g_buffers EXCEPT !.right = @ + TEST_TONE_SAMPLES]
          /\ host' = [host EXCEPT !.audio_mutex = "free", !.main = "events"]
    /\ UNCHANGED << pc, cycles, elapsed_cycles, cycles_this_frame, cycles_before,
                    frames, cut_short, fed, frame_fed, closed, video,
                    interrupt_flag, vblank, audio, mixed, on_audio, boot, screen >>

\* The emulator thread: Audio::tick flushes 1024 samples a side to the
\* on_audio lambda; after its lock_guard the lambda inserts left, inserts
\* right, trims left, trims right, and the lock_guard is destroyed.
OnAudioStep ==
    /\ \/ /\ host.emu = "audio"
          /\ host' = [host EXCEPT !.emu = "audio_lock"]
          /\ UNCHANGED g_buffers
       \/ /\ host.emu = "audio_store"
          /\ g_buffers' = [g_buffers EXCEPT !.left = @ + BUFFER_THRESHOLD]
          /\ host' = [host EXCEPT !.emu = "store_right"]
       \/ /\ host.emu = "store_right"
          /\ g_buffers' = [g_buffers EXCEPT !.right = @ + BUFFER_THRESHOLD]
          /\ host' = [host EXCEPT !.emu = "trim_left"]
       \/ /\ host.emu = "trim_left"
          /\ g_buffers' = [g_buffers EXCEPT
                             !.left = IF @ > max_buffer_size THEN max_buffer_size ELSE @]
          /\ host' = [host EXCEPT !.emu = "trim_right"]
       \/ /\ host.emu = "trim_right"
          /\ g_buffers' = [g_buffers EXCEPT
                             !.right = IF @ > max_buffer_size THEN max_buffer_size ELSE @]
          /\ host' = [host EXCEPT !.audio_mutex = "free", !.emu = "audio"]
    /\ UNCHANGED << pc, cycles, elapsed_cycles, cycles_this_frame, cycles_before,
                    frames, cut_short, fed, frame_fed, closed, video,
                    interrupt_flag, vblank, audio, mixed, on_audio, boot, screen >>

\* The SDL audio thread inside audio_callback, after its lock_guard:
\* copy_samples and the copy loop, the erase of left, the erase of right,
\* and the lock_guard is destroyed.
SdlAudioStep ==
    /\ \/ /\ host.sdl = "copy"
          /\ LET copy_samples == IF g_buffers.left < SDL_SAMPLES
                                 THEN g_buffers.left ELSE SDL_SAMPLES
             IN  /\ g_buffers' = [g_buffers EXCEPT !.copy_samples = copy_samples]
                 /\ host' = IF copy_samples > 0
                            THEN [host EXCEPT !.sdl = "erase_left"]
                            ELSE [host EXCEPT !.audio_mutex = "free", !.sdl = "idle"]
       \/ /\ host.sdl = "erase_left"
          /\ g_buffers' = [g_buffers EXCEPT !.left = @ - g_buffers.copy_samples]
          /\ host' = [host EXCEPT !.sdl = "erase_right"]
       \/ /\ host.sdl = "erase_right"
          /\ g_buffers' = [g_buffers EXCEPT !.right = @ - g_buffers.copy_samples]
          /\ host' = [host EXCEPT !.audio_mutex = "free", !.sdl = "idle"]
    /\ UNCHANGED << pc, cycles, elapsed_cycles, cycles_this_frame, cycles_before,
                    frames, cut_short, fed, frame_fed, closed, video,
                    interrupt_flag, vblank, audio, mixed, on_audio, boot, screen >>

NextHostAudio ==
    \/ ToneStep
    \/ MainToneLock
    \/ OnAudioStep
    \/ EmuAudioLock
    \/ SdlWake
    \/ SdlLock
    \/ SdlAudioStep

SpecHostAudio == InitHostAudio /\ [][NextHostAudio]_vars

(***************************************************************************)
(* Claims.                                                                 *)
(***************************************************************************)
InTick == pc \in {"video", "audio", "timer"}

\* C1: in every Gameboy::tick the n cycles cpu.tick() returned are fed to the
\* PPU first, then to the APU, then to the Timer, and all three have been fed
\* before the next cpu.tick() starts: at video.tick() none has n yet, at
\* audio.tick() only the PPU has, at timer.tick() the PPU and the APU have,
\* and outside a tick all three have been fed every cycle the CPU consumed.
C1_TickOrder ==
    LET consumed == elapsed_cycles.hi * 65536 + elapsed_cycles.lo
        before == consumed - cycles
    IN  /\ pc = "video" =>
              fed["ppu"] = before /\ fed["apu"] = before /\ fed["timer"] = before
        /\ pc = "audio" =>
              fed["ppu"] = consumed /\ fed["apu"] = before /\ fed["timer"] = before
        /\ pc = "timer" =>
              fed["ppu"] = consumed /\ fed["apu"] = consumed /\ fed["timer"] = before
        /\ ~InTick =>
              fed["ppu"] = consumed /\ fed["apu"] = consumed /\ fed["timer"] = consumed
        /\ InTick => cycles \in CpuCycles

\* C1 witness: a second tick has reached timer.tick() with the PPU and the APU
\* already advanced by its 24 cycles.
C1_Witness == pc = "timer" /\ cycles = 24 /\ fed["timer"] > 0 /\ fed["apu"] = fed["timer"] + 24

\* C2: the k-th vblank callback fires in the Video::tick in which the cycles
\* fed to the PPU since reset first reach k * 70224: after every tick the
\* number of callbacks is the number of whole frames of T-states fed.
C2_VblankCadence == vblank.count = fed["ppu"] \div CLOCKS_PER_FRAME

\* C2 witness: the second vblank callback has fired.
C2_Witness == vblank.count = 2 /\ fed["ppu"] >= 2 * CLOCKS_PER_FRAME

\* C3: an outer-loop iteration of Gameboy::run that should_close did not cut
\* short has advanced the PPU, the APU and the Timer by exactly 70224 T-states
\* each when its inner loop ends.
C3_FrameTotals ==
    (pc = "sleep" /\ ~cut_short) => \A c \in Components : frame_fed[c] = cycles_per_frame

\* C4: once a poll of should_close() has returned true, Gameboy::run executes
\* no further cpu.tick(), whatever the later polls return: the count of
\* T-states the CPU consumed never changes again.
C4_NoInstructionAfterClose == [][closed => elapsed_cycles' = elapsed_cycles]_vars

\* C8: whenever LCDC bit 7 is 0, after any number of Video::tick calls LY is 0,
\* the mode is OAM-scan and the mode cycle counter is 0.
C8_LcdOffHoldsReset ==
    ~display_enabled(video) =>
        /\ video.line = 0
        /\ video.current_mode = "ACCESS_OAM"
        /\ video.cycle_counter = 0

\* C9: while LCDC bit 7 is 0 no Video::tick sets bit 0 (VBlank) or bit 1
\* (LCDSTAT) of the interrupt flag, and none draws background, window or
\* sprites into the frame buffer.
C9_LcdOffNoInterruptNoRender ==
    [][ ~display_enabled(video) =>
          /\ check_bit(interrupt_flag', 0) => check_bit(interrupt_flag, 0)
          /\ check_bit(interrupt_flag', 1) => check_bit(interrupt_flag, 1)
          /\ Len(video'.buffer) <= Len(video.buffer)
          /\ vblank'.frame = vblank.frame ]_vars

\* C5: once running is false it stays false, so should_close() returns true
\* from then on; under fair scheduling of the threads Gameboy::run then
\* returns (or its exception is caught) on the emulator thread,
\* emulator_thread.join() completes and the cartridge RAM is saved; the save
\* never happens before the emulator thread has ended.
C5_ShutdownLiveness ==
    /\ [][~host.running => ~host'.running]_vars
    /\ [](host.saved => host.emu = "finished")
    /\ (~host.running) ~> (host.emu = "finished" /\ host.main = "done" /\ host.saved)

\* C5 witness: running was set to false while Gameboy::run was still being
\* executed, and the save has been made.
C5_Witness == ~host.running /\ host.saved /\ host.main = "done"

\* C6: the audio callback is invoked exactly when the buffers reach 1024
\* samples: the buffers never hold 1024 samples after a tick, every invocation
\* received 1024 left and 1024 right samples, the buffers are empty right
\* after an invocation, and the samples delivered plus the samples still
\* buffered are exactly the samples generated.
C6_AudioFlush ==
    /\ Len(audio.left_buffer) < BUFFER_THRESHOLD
    /\ Len(audio.right_buffer) = Len(audio.left_buffer)
    /\ audio.audio_callback =>
          /\ on_audio.count = mixed \div BUFFER_THRESHOLD
          /\ on_audio.delivered + Len(audio.left_buffer) = mixed
          /\ on_audio.count > 0 =>
                /\ Len(on_audio.left) = BUFFER_THRESHOLD
                /\ Len(on_audio.right) = BUFFER_THRESHOLD
          /\ mixed = on_audio.count * BUFFER_THRESHOLD =>
                audio.left_buffer = << >> /\ audio.right_buffer = << >>

\* C6 witness: the second invocation of the callback has just happened.
C6_Witness ==
    /\ audio.audio_callback
    /\ on_audio.count = 2
    /\ mixed = 2 * BUFFER_THRESHOLD
    /\ audio.left_buffer = << >>

InRange(x) == -SAMPLE_ONE <= x /\ x <= SAMPLE_ONE

\* C7: every sample in the left and right buffers, and every sample handed to
\* the audio callback, lies in [-1, 1].
C7_SamplesInRange ==
    /\ \A i \in 1..Len(audio.left_buffer) : InRange(audio.left_buffer[i])
    /\ \A i \in 1..Len(audio.right_buffer) : InRange(audio.right_buffer[i])
    /\ \A i \in 1..Len(on_audio.left) : InRange(on_audio.left[i])
    /\ \A i \in 1..Len(on_audio.right) : InRange(on_audio.right[i])

\* C7 witness: all four channels at full positive level, routed left at
\* master volume 7: a sample of exactly 1.0 was pushed.
C7_Witness ==
    /\ Len(audio.left_buffer) = 1
    /\ audio.left_buffer[1] = SAMPLE_ONE

\* C10: once NR52 bit 7 is 0, every read of 0xFF10..0xFF25 returns the value
\* it returns after construction, whatever was written before the power-off,
\* and the channel parameters, NR50 and NR51 are zero.
C10_PowerOffResets ==
    ~check_bit(audio.nr52, 7) =>
        /\ \A address \in 65296..65317 :
              read_register(audio, address) = read_register(AudioInit, address)
        /\ audio.nr50 = 0 /\ audio.nr51 = 0
        /\ audio.channel1.frequency = 0 /\ audio.channel1.volume = 0
        /\ audio.channel1.envelope_initial_volume = 0
        /\ audio.channel2.volume = 0
        /\ audio.channel4.volume = 0

\* The APU state a register write can change: channels, NR50, NR51, NR52, wave
\* RAM (in channel3), sample buffers.
ChannelsEnabled(a) ==
    { c \in 1..4 : << a.channel1.enabled, a.channel2.enabled,
                      a.channel3.enabled, a.channel4.enabled >>[c] }

\* C11: a write that takes NR52 bit 7 from 1 to 0 leaves no channel enabled,
\* NR52 then reads 0 in bits 0..3, and the 16 bytes of wave pattern RAM are
\* what they were before the write.
C11_PowerOffDisablesChannels ==
    [][ (check_bit(audio.nr52, 7) /\ ~check_bit(audio'.nr52, 7)) =>
          /\ ChannelsEnabled(audio') = {}
          /\ read_register(audio', 65318) % 16 = 0
          /\ audio'.channel3.wave_pattern = audio.channel3.wave_pattern ]_vars

\* C11 witness: the APU was powered off after channels 1, 2 and 4 had been
\* triggered and wave RAM written; every channel is disabled, the wave byte
\* is still there.
C11_Witness ==
    /\ ~check_bit(audio.nr52, 7)
    /\ audio.channel1.timer > 0
    /\ audio.channel2.timer > 0
    /\ audio.channel4.timer > 0
    /\ ChannelsEnabled(audio) = {}
    /\ audio.channel3.wave_pattern[0] = 247

ByteSamples == {0, 1, 127, 128, 247, 255}

\* C12: while NR52 bit 7 is 0 a write of any value to any address in
\* 0xFF10..0xFF25 leaves the Audio object as it is; in every state, master
\* enabled or not, a write to a wave RAM address followed by a read of that
\* address returns the byte written.
C12_MasterGate ==
    /\ ~check_bit(audio.nr52, 7) =>
          \A address \in 65296..65317, value \in ByteSamples :
              write_register(audio, address, value) = audio
    /\ \A index \in 0..15, value \in ByteSamples :
          read_register(write_register(audio, 65328 + index, value), 65328 + index)
              = value

\* C12 witness: the master is off after registers were written while it was
\* on, and a wave RAM byte written while it was off reads back.
C12_Witness ==
    /\ ~check_bit(audio.nr52, 7)
    /\ audio.nr50 = 247
    /\ audio.channel1.timer > 0
    /\ read_register(audio, 65328) = 128

\* C13: after the constructor has run, the log level in force is Error when
\* options.disable_logs is set and options.trace is not, and Trace when
\* options.trace is set.
C13_LogLevel ==
    boot.constructed =>
        /\ (boot.options.disable_logs /\ ~boot.options.trace) => boot.log_level = "Error"
        /\ boot.options.trace => boot.log_level = "Trace"

\* C14: the main thread is at, or past, the statement that reads the cartridge
\* RAM and writes the save file only when the emulator thread has ended, that
\* is after Gameboy::run has returned and emulator_thread.join() completed.
C14_SaveAfterJoin ==
    (host.main \in {"save", "done"} \/ host.saved) => host.emu = "finished"

\* C14 witness: the main thread is about to read the cartridge RAM after a
\* quit event stopped a running emulator thread.
C14_Witness == host.main = "save" /\ ~host.running /\ host.emu = "finished"

\* The positions of the emulator thread inside Gameboy::run.
EmuInRun ==
    {"outer", "inner", "cpu", "video", "vblank_lock", "vblank_store", "audio",
     "audio_lock", "audio_store", "sleep"}

\* C15: while the emulator thread is inside Gameboy::run no other thread
\* accesses core state: the main thread is never inside button_pressed,
\* button_released or a debug_toggle_* at such a moment.
C15_NoConcurrentCoreAccess ==
    host.main \in {"button", "toggle"} => host.emu \notin EmuInRun

\* a <= b for two uint values.
u32_le(a, b) == a.hi < b.hi \/ (a.hi = b.hi /\ a.lo <= b.lo)

\* C16: elapsed_cycles never decreases: after every step its value is greater
\* than or equal to its value before.
C16_ElapsedMonotonic == [][u32_le(elapsed_cycles, elapsed_cycles')]_vars

\* The sample the mixing rule gives one side: the channel outputs s whose
\* NR51 bit (lo .. lo + 3 for channels 1 .. 4) is set, summed, times vol / 7,
\* divided by 4, limited to [-1, 1].
RoutedScaled(s, nr51, lo, vol) ==
    LET sum == s[1] * ((nr51 \div Pow2(lo)) % 2) + s[2] * ((nr51 \div Pow2(lo + 1)) % 2)
             + s[3] * ((nr51 \div Pow2(lo + 2)) % 2) + s[4] * ((nr51 \div Pow2(lo + 3)) % 2)
        x == (sum * vol) \div 28
    IN  IF x < -SAMPLE_ONE THEN -SAMPLE_ONE ELSE IF x > SAMPLE_ONE THEN SAMPLE_ONE ELSE x

\* Channel 1's raw output: +volume/15 on a high duty bit, -volume/15 on a low one.
Channel1Raw(c) ==
    LET level == c.volume * (SAMPLE_ONE \div 15)
    IN  IF duty_patterns[c.duty_pattern + 1][c.duty_position + 1] THEN level ELSE -level

\* C17: with the master enabled, every sample pair Audio::tick pushes is the
\* NR51-routed sum of the four channel outputs, times the NR50 volume of its
\* side over 7, divided by 4 and clamped; when channel 1 is the only channel
\* triggered the pair is channel 1's raw output scaled that way.
C17_MixFormula ==
    [][ (Len(audio'.left_buffer) = Len(audio.left_buffer) + 1 /\ check_bit(audio'.nr52, 7)) =>
          LET a == audio'
              s == << square_sample(a.channel1), square_sample(a.channel2),
                      wave_sample(a.channel3), noise_sample(a.channel4) >>
              left_vol == (a.nr50 \div 16) % 8
              right_vol == a.nr50 % 8
              left == a.left_buffer[Len(a.left_buffer)]
              right == a.right_buffer[Len(a.right_buffer)]
              only1 == << Channel1Raw(a.channel1), 0, 0, 0 >>
          IN  /\ left = RoutedScaled(s, a.nr51, 4, left_vol)
              /\ right = RoutedScaled(s, a.nr51, 0, right_vol)
              /\ (a.channel1.enabled /\ ~a.channel2.enabled
                     /\ ~a.channel3.enabled /\ ~a.channel4.enabled) =>
                    /\ left = RoutedScaled(only1, a.nr51, 4, left_vol)
                    /\ right = RoutedScaled(only1, a.nr51, 0, right_vol) ]_vars

\* C17 witness: NR52 on, NR11 = 0x80, NR12 = 0xF0, NR14 = 0x87, NR50 = 0x77,
\* NR51 = 0x11 and nothing else triggered; the first sample, pushed in the
\* tick that completes 95 T-states, is -1 * 7/7 / 4 on both sides.
C17_Witness ==
    /\ check_bit(audio.nr52, 7)
    /\ audio.channel1.enabled /\ audio.channel1.volume = 15
    /\ audio.channel1.duty_pattern = 2 /\ audio.channel1.frequency = 1792
    /\ ~audio.channel2.enabled
    /\ audio.nr50 = 119 /\ audio.nr51 = 17
    /\ fed["apu"] >= CYCLES_PER_SAMPLE
    /\ audio.left_buffer = << -(SAMPLE_ONE \div 4) >>
    /\ audio.right_buffer = << -(SAMPLE_ONE \div 4) >>

\* C18: once a callback has been invoked, the object it was given keeps the
\* contents it had at the call: the frame buffer given to on_vblank still
\* holds the frame, the vectors given to on_audio still hold the samples.
C18_CallbackSnapshots ==
    /\ vblank.count > 0 => vblank_callback_argument = vblank.frame
    /\ on_audio.count > 0 =>
          audio_callback_argument = << on_audio.left, on_audio.right >>

\* C19: LY is always in 0..153 and the mode is VBlank exactly when LY is in
\* 144..153; a step changes the mode only OAM-scan -> VRAM-access -> HBlank ->
\* (OAM-scan with LY + 1, or VBlank when LY becomes 144) or, after line 153,
\* VBlank -> OAM-scan with LY = 0, and changes LY in no other step than these
\* and the line steps inside VBlank.
C19_ModeMachine ==
    /\ [](/\ video.line \in 0..153
          /\ (video.current_mode = "VBLANK") <=> (video.line \in 144..153))
    /\ [][ LET m == video.current_mode
               m1 == video'.current_mode
               ly == video.line
               ly1 == video'.line
           IN  \/ m1 = m /\ ly1 = ly
               \/ m = "ACCESS_OAM" /\ m1 = "ACCESS_VRAM" /\ ly1 = ly
               \/ m = "ACCESS_VRAM" /\ m1 = "HBLANK" /\ ly1 = ly
               \/ m = "HBLANK" /\ m1 = "ACCESS_OAM" /\ ly1 = ly + 1 /\ ly1 < 144
               \/ m = "HBLANK" /\ m1 = "VBLANK" /\ ly1 = ly + 1 /\ ly1 = 144
               \/ m = "VBLANK" /\ m1 = "VBLANK" /\ ly1 = ly + 1
               \/ m = "VBLANK" /\ m1 = "ACCESS_OAM" /\ ly = 153 /\ ly1 = 0 ]_vars

\* C19 witness: the last line of the second frame's VBlank, after the first
\* frame went through every mode and wrapped to line 0.
C19_Witness ==
    /\ vblank.count = 1
    /\ video.current_mode = "VBLANK"
    /\ video.line = 153

\* A step that enters VBlank: LY goes from 143 to 144 and the mode becomes VBLANK.
VblankEntry(v, v1) == v.line = 143 /\ v1.line = 144 /\ v1.current_mode = "VBLANK"

\* C20: Video::tick sets IF bit 0 in the tick that enters VBlank (LY 143 ->
\* 144, mode VBLANK) and in no other tick: from every reachable PPU state and
\* for every step length, a tick started with IF clear ends with bit 0 set
\* exactly when it is that tick; the entry happens once per frame, at T-state
\* 144 * 456 of the frame, and IF bit 0 never rises in another step.
C20_VblankInterrupt ==
    /\ [](\A n \in CpuCycles :
             LET r == Video_tick(video, 0, n)
             IN  check_bit(r.ifl, 0) <=> VblankEntry(video, r.v))
    /\ [][ /\ VblankEntry(video, video') =>
                /\ check_bit(interrupt_flag', 0)
                /\ fed'["ppu"] \div CLOCKS_PER_FRAME = vblank.count
                /\ LET pos == fed'["ppu"] % CLOCKS_PER_FRAME
                       entry == SCANLINES_PER_FRAME * CLOCKS_PER_SCANLINE
                   IN  entry <= pos /\ pos < entry + 24
           /\ (~check_bit(interrupt_flag, 0) /\ check_bit(interrupt_flag', 0)) =>
                VblankEntry(video, video') ]_vars

\* C20 witness: the second frame has just entered VBlank with IF bit 0 set.
C20_Witness ==
    /\ vblank.count = 1
    /\ video.line = 144
    /\ video.current_mode = "VBLANK"
    /\ video.cycle_counter < 24
    /\ check_bit(interrupt_flag, 0)

\* C21: in every reachable state, the initial one included, STAT bits 1..0 are
\* the number of the current PPU mode: HBlank 0, VBlank 1, OAM-scan 2,
\* VRAM-access 3.
C21_StatEncodesMode ==
    video.lcd_status % 4 =
        CASE video.current_mode = "HBLANK" -> 0
          [] video.current_mode = "VBLANK" -> 1
          [] video.current_mode = "ACCESS_OAM" -> 2
          [] video.current_mode = "ACCESS_VRAM" -> 3

\* C22: a tick that takes the PPU into HBlank, VBlank or OAM-scan, started
\* with IF clear, ends with IF bit 1 set if and only if the STAT enable bit of
\* the mode entered (3 HBlank, 4 VBlank, 5 OAM-scan) is set, or STAT bit 6 is
\* set and LY equals LYC.
C22_StatInterrupt ==
    \A n \in CpuCycles :
        LET r == Video_tick(video, 0, n)
            m1 == r.v.current_mode
            st == video.lcd_status
            enabled == CASE m1 = "HBLANK" -> check_bit(st, 3)
                         [] m1 = "VBLANK" -> check_bit(st, 4)
                         [] m1 = "ACCESS_OAM" -> check_bit(st, 5)
                         [] OTHER -> FALSE
            coincidence == check_bit(st, 6) /\ r.v.line = r.v.ly_compare
        IN  (m1 # video.current_mode /\ m1 \in {"HBLANK", "VBLANK", "ACCESS_OAM"}) =>
                (check_bit(r.ifl, 1) <=> (enabled \/ coincidence))

\* C23: STAT bit 2 is set exactly when LY equals LYC, on the VBlank lines
\* 144..153 as on the visible ones, and a line on which LY equals LYC with
\* STAT bit 6 set does not end before IF bit 1 has been raised.
C23_Coincidence ==
    /\ [](check_bit(video.lcd_status, 2) <=> (video.line = video.ly_compare))
    /\ [][ (/\ video.line = video.ly_compare
            /\ video'.line # video.line
            /\ check_bit(video.lcd_status, 6)) => check_bit(interrupt_flag', 1) ]_vars

C25_LengthClocked ==
    (fed["apu"] >= 2 * 8192 /\ audio.channel1.length_enabled) =>
        audio.channel1.length_counter < 54

\* C26: N T-states after the trigger of an enabled square channel of constant
\* frequency f, fed in steps of 4..24 cycles in any split, the duty position
\* is floor(N / ((2048 - f) * 4)) modulo 8.
C26_DutyPosition ==
    audio.channel1.enabled =>
        audio.channel1.duty_position =
            (fed["apu"] \div ((2048 - audio.channel1.frequency) * 4)) % 8

\* C27: the LFSR always fits in 15 bits; a tick in which the noise period
\* expires leaves the LFSR equal to the old one shifted right by one with bit
\* 14 set to (old bit 0 XOR old bit 1), and bit 6 set to the same in width
\* mode, and reloads the timer with divisors[ratio] << shift.
C27_NoiseLfsr ==
    /\ [](audio.channel4.lfsr \in 0..32767)
    /\ [][ LET c == audio.channel4
               n == fed'["apu"] - fed["apu"]
               x == ((c.lfsr % 2) + ((c.lfsr \div 2) % 2)) % 2
               with14 == ((c.lfsr \div 2) % 16384) + x * 16384
               with6 == (with14 \div 128) * 128 + x * 64 + (with14 % 64)
           IN  (c.enabled /\ n > 0 /\ c.timer <= n) =>
                 /\ audio'.channel4.lfsr =
                       IF c.counter_step_width_mode THEN with6 ELSE with14
                 /\ audio'.channel4.timer =
                       << 8, 16, 32, 48, 64, 80, 96, 112 >>[c.dividing_ratio + 1]
                          * Pow2(c.shift_clock_frequency) ]_vars

\* C27 witness: in width mode the seventh expiry has found bits 0 and 1
\* different and written the XOR into bits 14 and 6.
C27_Witness ==
    /\ audio.channel4.enabled
    /\ audio.channel4.counter_step_width_mode
    /\ audio.channel4.lfsr # 32767
    /\ check_bit(audio.channel4.lfsr, 14)
    /\ check_bit(audio.channel4.lfsr, 6)
    /\ fed["apu"] >= 56

\* C28 as stated: the period reloaded for f = 2047 is greater than or equal to
\* the period reloaded for the frequency of any triggered square channel.
C28_LongestAt2047 ==
    audio.channel1.enabled =>
        period_timer(2047, 4) >= period_timer(audio.channel1.frequency, 4)

\* C28, amended: f = 2047 reloads the shortest period (4 T-states) and f = 0
\* the longest (8192): the period reloaded for the frequency of any triggered
\* square channel lies between the two, and the running timer never exceeds it.
C28_ShortestAt2047 ==
    LET c == audio.channel1
        period == period_timer(c.frequency, 4)
    IN  c.enabled =>
          /\ c.frequency \in 0..2047
          /\ period_timer(2047, 4) = 4
          /\ period_timer(0, 4) = 8192
          /\ period_timer(2047, 4) <= period
          /\ period <= period_timer(0, 4)
          /\ (c.frequency < 2047 => period > period_timer(2047, 4))
          /\ c.timer \in 1..period

\* C28 witness: channel 1 runs at f = 0 with more than 8000 T-states of its
\* period left after some ticks.
C28_Witness ==
    /\ audio.channel1.enabled
    /\ audio.channel1.frequency = 0
    /\ fed["apu"] >= 96
    /\ audio.channel1.timer > 8000

\* The bounds of the indices get_sample uses.
IndicesInRange(a) ==
    /\ a.channel1.frequency \in 0..2047
    /\ a.channel2.frequency \in 0..2047
    /\ a.channel3.frequency \in 0..2047
    /\ a.channel1.duty_pattern \in 0..3 /\ a.channel1.duty_position \in 0..7
    /\ a.channel2.duty_pattern \in 0..3 /\ a.channel2.duty_position \in 0..7
    /\ a.channel3.position \in 0..31
    /\ a.channel3.output_level \in 0..3

C30_SampleRate ==
    /\ mixed = fed["apu"] \div CYCLES_PER_SAMPLE
    /\ audio.sample_counter = fed["apu"] % CYCLES_PER_SAMPLE
    /\ audio.sample_counter < CYCLES_PER_SAMPLE

\* C30 witness: 280 T-states fed, two pairs generated, 90 T-states carried.
C30_Witness ==
    /\ fed["apu"] = 280
    /\ mixed = 2
    /\ audio.sample_counter = 90
    /\ Len(audio.left_buffer) = 2


(***************************************************************************)
(* C31: a sprite with the behind-BG attribute (OAM attribute bit 7) has    *)
(* its non-transparent pixel drawn exactly where the background or window  *)
(* pixel under it has pre-palette colour index 0, for every BGP value and  *)
(* whatever sprites were drawn before it.                                  *)
(***************************************************************************)
C31_BehindBg ==
    (screen.stage = "sprites" /\ check_bit(screen.oam[1].attrs, 7)) =>
        \A x \in 0..(GAMEBOY_WIDTH - 1) :
            (x >= screen.oam[1].x - 8 /\ x < screen.oam[1].x) =>
                ((screen.row[x].layer = "sprite" /\ screen.row[x].col.lo = 1)
                    <=> screen.row[x].index = 0)

(***************************************************************************)
(* C32: on a scanline LY with the window enabled (LCDC bit 5), the window  *)
(* replaces the background exactly at the columns x with LY >= WY and      *)
(* x >= WX - 7; columns x < WX - 7 keep the background; the window pixel   *)
(* at column x is column x - (WX - 7) of the window map.                   *)
(***************************************************************************)
C32_WindowColumns ==
    (screen.stage = "scanline" /\ window_enabled(screen)) =>
        \A x \in 0..(GAMEBOY_WIDTH - 1) :
            IF screen.line >= screen.window_y /\ x + 7 >= screen.window_x
            THEN /\ screen.row[x].layer = "window"
                 /\ screen.row[x].col = [ hi |-> 0, lo |-> x + 7 - screen.window_x ]
            ELSE screen.row[x].layer = "bg"

(***************************************************************************)
(* C33: each visible scanline LY in 0..143 is rendered exactly once per    *)
(* frame, in the tick in which the PPU enters HBlank for that line, so     *)
(* that register changes during that line's HBlank do not affect it.       *)
(***************************************************************************)
C33_RenderedAtHblankEntry ==
    [][ (video'.buffer # video.buffer /\ video'.buffer # << >>) =>
            (video.current_mode = "ACCESS_VRAM" /\ video'.current_mode = "HBLANK")
      ]_vars

\* What write_scanline appends for one line under the LCDC value of v.
LineLog(v, l) == write_scanline([v EXCEPT !.buffer = << >>], l)

\* The buffer after lines 0..k-1 have been rendered once each, in order.
LinesLog(v, k) ==
    LET m == Len(LineLog(v, 0))
    IN  [ i \in 1..(k * m) |-> LineLog(v, (i - 1) \div m)[((i - 1) % m) + 1] ]

\* The buffer the vblank callback is given: 144 lines, then the sprite pass.
FrameLog(v) == write_sprites([v EXCEPT !.buffer = LinesLog(v, SCANLINES_PER_FRAME)])

(***************************************************************************)
(* C34: within a frame the order is fixed: scanlines 0..143 are rendered   *)
(* in increasing order, then the sprite pass runs once, then the vblank    *)
(* callback is invoked once with the buffer, then the buffer is reset and  *)
(* LY returns to 0; write_scanline is never called with a line outside     *)
(* 0..143.                                                                 *)
(***************************************************************************)
C34_FrameOrder ==
    /\ [](/\ video.current_mode = "HBLANK" => video.line \in 0..(SCANLINES_PER_FRAME - 1)
          /\ video.buffer = LinesLog(video, IF video.current_mode = "VBLANK"
                                               THEN SCANLINES_PER_FRAME ELSE video.line)
          /\ vblank.count > 0 => vblank.frame = FrameLog(video))
    /\ [][ /\ vblank'.count \in {vblank.count, vblank.count + 1}
           /\ vblank'.count = vblank.count + 1 =>
                 /\ video.current_mode = "VBLANK" /\ video.line = 153
                 /\ video'.buffer = << >> /\ video'.line = 0
                 /\ video'.current_mode = "ACCESS_OAM"
           /\ video'.buffer # video.buffer =>
                 \/ vblank'.count = vblank.count + 1
                 \/ /\ video.current_mode = "HBLANK"
                    /\ video'.buffer = video.buffer \o LineLog(video, video.line)
                    /\ video'.line = video.line + 1
      ]_vars

C34_Witness ==
    /\ vblank.count = 1
    /\ Len(vblank.frame) = 2 * SCANLINES_PER_FRAME + 1
    /\ video.current_mode = "HBLANK" /\ video.line = 2
    /\ Len(video.buffer) = 4

(***************************************************************************)
(* C35: whenever NR52 bit 7 is 0 no channel is enabled, and a read of NR52 *)
(* returns 0x70 (bits 0..3 zero), after every sequence of register writes  *)
(* and ticks from reset.                                                   *)
(***************************************************************************)
C35_OffMeansSilent ==
    ~check_bit(audio.nr52, 7) =>
        /\ ~audio.channel1.enabled /\ ~audio.channel2.enabled
        /\ ~audio.channel3.enabled /\ ~audio.channel4.enabled
        /\ read_register(audio, 65318) = 112

\* C35 witness: the APU is off after all four channels had been enabled and
\* ticked.
C35_Witness ==
    /\ ~check_bit(audio.nr52, 7)
    /\ audio.nr52 = 112
    /\ fed["apu"] > 0
    /\ audio.channel1.timer > 0 /\ audio.channel2.timer > 0
    /\ audio.channel3.timer > 0 /\ audio.channel4.timer > 0

\* The trigger register (NRx4) of channel c.
TriggerAddress(c) == << 65300, 65305, 65310, 65315 >>[c]

(***************************************************************************)
(* C36: a channel's enabled flag goes from false to true only through a    *)
(* trigger write (NRx4 with bit 7 set) made while the master enable (NR52  *)
(* bit 7) is set; no other register write and no tick enables a channel.   *)
(***************************************************************************)
C36_OnlyTriggerEnables ==
    [][ \A c \in 1..4 :
          (c \in ChannelsEnabled(audio') /\ c \notin ChannelsEnabled(audio)) =>
              /\ check_bit(audio.nr52, 7)
              /\ \E value \in {128, 135} :
                    audio' = write_register(audio, TriggerAddress(c), value)
      ]_vars

(***************************************************************************)
(* C37: after every Audio::tick the left and right sample buffers have     *)
(* the same length and that length is below 1024, whether or not an audio  *)
(* callback was registered.                                                *)
(***************************************************************************)
C37_BuffersBalanced ==
    /\ Len(audio.left_buffer) = mixed % BUFFER_THRESHOLD
    /\ Len(audio.right_buffer) = mixed % BUFFER_THRESHOLD
    /\ Len(audio.right_buffer) < BUFFER_THRESHOLD

\* C37 witness: no callback was registered, the buffers have been cleared
\* once at 1024 samples and are filling again.
C37_Witness ==
    /\ ~audio.audio_callback
    /\ on_audio.count = 0
    /\ mixed > BUFFER_THRESHOLD
    /\ Len(audio.left_buffer) > 0
    /\ Len(audio.right_buffer) = Len(audio.left_buffer)

(***************************************************************************)
(* C38: for every sequence of NR43 writes (toggling the width mode between *)
(* period expiries included), triggers and ticks, the LFSR of the noise    *)
(* channel is never 0 after a trigger.                                     *)
(***************************************************************************)
C38_LfsrNeverZero ==
    audio.channel4.enabled => audio.channel4.lfsr # 0

(***************************************************************************)
(* C39: every complete iteration of the outer, throttled loop of           *)
(* Gameboy::run contains exactly one vblank callback, for every sequence   *)
(* of instruction costs in 4..24 and any number of frames.                 *)
(***************************************************************************)
C39_OneVblankPerIteration ==
    (pc = "sleep" /\ ~cut_short) => vblank.count = frames

(***************************************************************************)
(* C40: in the SDL host, whenever audio_mutex is not held, g_left_buffer   *)
(* and g_right_buffer have the same length, under every interleaving of    *)
(* the on_audio lambda, the SDL audio callback and generate_test_audio;    *)
(* hence the SDL callback never indexes g_right_buffer past its end.       *)
(***************************************************************************)
C40_BuffersEqualOutsideLock ==
    /\ host.audio_mutex = "free" => g_buffers.left = g_buffers.right
    /\ host.sdl = "copy" => g_buffers.left = g_buffers.right
    /\ host.sdl \in {"erase_left", "erase_right"} =>
          g_buffers.copy_samples <= g_buffers.right

\* C40 witness: the SDL callback is about to erase the samples it copied
\* while the main thread waits for the mutex with a test tone, after the
\* lambda has filled the buffers up to the two-second limit.
C40_Witness ==
    /\ host.sdl = "erase_left"
    /\ host.main = "tone_lock"
    /\ host.emu = "audio_lock"
    /\ g_buffers.copy_samples = SDL_SAMPLES
    /\ g_buffers.left = max_buffer_size
    /\ g_buffers.right = max_buffer_size
====
